---- MODULE Spec2Model ----
(***************************************************************************)
(* Model of the sequential multi-file pipeline of the stock-report         *)
(* puncher (llamaParseService.ts: processFilesSequentialPipeline) and of   *)
(* the progress computation it performs.                                   *)
(*                                                                         *)
(* The pipeline is a single async function.  JavaScript runs it to         *)
(* completion between two awaits, so every action below is one             *)
(* synchronous segment of the function: it starts where an awaited         *)
(* capability call settles and ends at the next await (or at the return /  *)
(* throw).  Everything the caller can observe is appended, in program      *)
(* order, to the history variable log: capability invocations, stage       *)
(* status assignments and progress events.                                 *)
(***************************************************************************)
EXTENDS Integers, Sequences, FiniteSets, TLC

\* ------------------------------------------------------------------------
\* Bounds of the model
\* ------------------------------------------------------------------------
\* largest configured batch size (VITE_LLAMAPARSE_BATCH_SIZE) explored
MaxBatchSize == 3
\* longest file list handed to the pipeline
MaxFiles == 4
\* largest totalFiles for which the progress computation is tabulated
MaxTotalFiles == 10
\* largest PROCESSING_TIMEOUT explored, in seconds
MaxTimeout == 4
\* longest a request takes, and a timer overruns, in seconds
MaxLatency == 1
\* most documents handed to processLlamaParseResults
MaxDocuments == 3

\* ------------------------------------------------------------------------
\* IEEE-754 double arithmetic, as far as updateProgress needs it: the
\* quotient of two small positive integers, its product with a small
\* integer, and Math.round of the result.
\* A positive double is [e, hi, lo]: the value (1 + hi/2^26 + lo/2^52) * 2^e,
\* i.e. a 53-bit mantissa whose 52 fraction bits are hi (upper 26) and lo
\* (lower 26).  All intermediate integers stay below 2^31.
\* ------------------------------------------------------------------------
\* digits of 13 bits are used for long division and multiplication
DigitBits == 13
Digit == 2 ^ DigitBits
Half == 2 ^ (2 * DigitBits)

\* round to nearest, ties to even: the 52 fraction bits (hi, lo) are
\* followed by the bit guard and, if sticky, by further non-zero bits
RoundToDouble(e, hi, lo, guard, sticky) ==
    IF ~(guard /\ (sticky \/ (lo % 2) = 1)) THEN [e |-> e, hi |-> hi, lo |-> lo]
    ELSE IF lo + 1 < Half THEN [e |-> e, hi |-> hi, lo |-> lo + 1]
    ELSE IF hi + 1 < Half THEN [e |-> e, hi |-> hi + 1, lo |-> 0]
    ELSE [e |-> e + 1, hi |-> 0, lo |-> 0]

\* floor(log2(a / b)) for 1 <= a, b < 2^10
Exponent(a, b) ==
    CHOOSE e \in -10..10 :
        IF e >= 0 THEN b * (2 ^ e) <= a /\ a < b * (2 ^ (e + 1))
        ELSE b <= a * (2 ^ (-e)) /\ a * (2 ^ (-e)) < 2 * b

\* the double nearest to a / b, for integers 1 <= a, b < 2^10
\* (JavaScript a / b): long division, 13 bits at a time
DoubleDiv(a, b) ==
    LET e   == Exponent(a, b)
        num == IF e >= 0 THEN a ELSE a * (2 ^ (-e))
        den == IF e >= 0 THEN b * (2 ^ e) ELSE b
        r0  == num - den
        d1  == (r0 * Digit) \div den
        r1  == (r0 * Digit) % den
        d2  == (r1 * Digit) \div den
        r2  == (r1 * Digit) % den
        d3  == (r2 * Digit) \div den
        r3  == (r2 * Digit) % den
        d4  == (r3 * Digit) \div den
        r4  == (r3 * Digit) % den
        guard == 2 * r4 >= den
        rest  == IF guard THEN 2 * r4 - den ELSE 2 * r4
    IN  RoundToDouble(e, (d1 * Digit) + d2, (d3 * Digit) + d4, guard,
                      rest # 0)

\* number of bits of n, for 1 <= n < 2^20
BitLength(n) ==
    CHOOSE len \in 1..20 : (2 ^ (len - 1)) <= n /\ n < (2 ^ len)

\* the double nearest to x * c, for a double x and an integer 1 <= c < 2^12
\* (JavaScript x * c): the exact product digit by digit, then shifted
\* right by the d bits it has too many and rounded on the bits shifted out
DoubleMul(x, c) ==
    LET t0   == (x.lo % Digit) * c
        t1   == ((x.lo \div Digit) * c) + (t0 \div Digit)
        t2   == ((x.hi % Digit) * c) + (t1 \div Digit)
        t3   == ((x.hi \div Digit) * c) + (t2 \div Digit)
        top  == c + (t3 \div Digit)
        p0   == t0 % Digit
        p1   == t1 % Digit
        p2   == t2 % Digit
        p3   == t3 % Digit
        d    == BitLength(top) - 1
        up   == 2 ^ (DigitBits - d)
        down == 2 ^ d
        k1   == ((top % down) * up) + (p3 \div down)
        k2   == ((p3 % down) * up) + (p2 \div down)
        k3   == ((p2 % down) * up) + (p1 \div down)
        k4   == ((p1 % down) * up) + (p0 \div down)
        out  == p0 % down
        guard  == d > 0 /\ out >= 2 ^ (d - 1)
        sticky == d > 1 /\ (out % (2 ^ (d - 1))) # 0
    IN  RoundToDouble(x.e + d, (k1 * Digit) + k2, (k3 * Digit) + k4, guard,
                      sticky)

\* Math.round of a positive double below 2^13: nearest integer, halves up
MathRound(x) ==
    IF x.e < -1 THEN 0
    ELSE IF x.e = -1 THEN 1
    ELSE (2 ^ x.e) + (x.hi \div (2 ^ (26 - x.e)))
           + ((x.hi \div (2 ^ (25 - x.e))) % 2)

\* ------------------------------------------------------------------------
\* Configuration (config.ts)
\* ------------------------------------------------------------------------
\* strings are sequences of characters, so that startsWith is computed
Placeholder == <<"Y", "O", "U", "R", "_", "K", "E", "Y">>
Prefix == <<"l", "l", "x", "-">>

\* values VITE_LLAMAPARSE_API_KEY can have; <<>> is "not set"
EnvKeys ==
    { <<>>, Placeholder, <<"s", "k", "-", "1">>, <<"l", "l", "x">>,
      <<"l", "l", "x", "-", "1">> }

\* import.meta.env.VITE_LLAMAPARSE_API_KEY || "YOUR_LLAMAPARSE_API_KEY_HERE"
ConfigKey(env) == IF env = <<>> THEN Placeholder ELSE env

startsWith(str, prefix) ==
    Len(str) >= Len(prefix) /\ SubSeq(str, 1, Len(prefix)) = prefix

\* the message validateLlamaParseConfig throws, or "ok" when it returns
validateLlamaParseConfig(key) ==
    IF key = <<>> \/ key = Placeholder
    THEN "LlamaParse API key is not configured"
    ELSE IF ~startsWith(key, Prefix)
    THEN "Invalid LlamaParse API key format"
    ELSE "ok"

\* ------------------------------------------------------------------------
\* What the injected capabilities can answer
\* ------------------------------------------------------------------------
ExistingSnapshot == << <<"lineItem", "2023">>, <<"Revenue", "100">> >>

\* getExistingSheetFn: a table (possibly empty), or it throws
SheetOutcomes == { "throws", "empty", "table" }

\* processLlamaParseResults has not been called
NotCalled ==
    [ status |-> "notCalled", data |-> <<>>, sent |-> <<>>,
      error |-> "none",
      stats |-> [filesProcessed |-> 0, lineItemsFound |-> 0,
                 periodsFound |-> 0] ]

\* no LlamaParseResult yet
NoResult == [status |-> "none", jsonData |-> "undefined", error |-> "none"]

\* JavaScript truthiness of a jsonData value
Truthy(value) == value \notin {"null", "undefined"}

\* pollLlamaParseJob always returns a LlamaParseResult
PollResults ==
    { [status |-> "completed", jsonData |-> "content", error |-> "none"],
      [status |-> "completed", jsonData |-> "null", error |-> "none"],
      [status |-> "error", jsonData |-> "null", error |-> "Job failed"] }

Record(lineItem, idx) ==
    [lineItem |-> lineItem, period |-> 2020 + idx, value |-> "100"]

\* what geminiProcessFn can resolve to for file idx
GeminiReturns(idx) ==
    { [data  |-> <<>>,
       stats |-> [lineItemsFound |-> 0, periodsFound |-> 0]],
      [data  |-> <<Record("Revenue", idx)>>,
       stats |-> [lineItemsFound |-> 1, periodsFound |-> 1]],
      [data  |-> <<Record("Revenue", idx), Record("Costs", idx)>>,
       stats |-> [lineItemsFound |-> 2, periodsFound |-> 1]] }

\* ------------------------------------------------------------------------
\* State
\* ------------------------------------------------------------------------
VARIABLES
    LLAMAPARSE_API_KEY,    \* config.ts
    LLAMAPARSE_BATCH_SIZE, \* config.ts
    driveFiles,            \* the files handed to the pipeline
    pc,                    \* where the pipeline is suspended
    i,                     \* loop index of processFilesSequentialPipeline
    fileResults,           \* PipelineFileResult per file
    existingSheet,
    allData,
    successfulFiles,
    failedFiles,
    totalStats,
    log,                   \* history: calls, their outcomes, status
                           \* assignments and progress events, in order
    PROCESSING_TIMEOUT,    \* config.ts, in seconds
    pollPc,                \* where pollLlamaParseJob is suspended
    elapsed,               \* Date.now() - startTime, in seconds; it stops
                           \* counting at PROCESSING_TIMEOUT
    polls,                 \* history: the status requests of the job
    pollResult,            \* the LlamaParseResult pollLlamaParseJob returns
    operationType,         \* arguments of processLlamaParseResults
    llamaParseResults,
    existingSheetData,
    processed,             \* what processLlamaParseResults came to
    extractedData,         \* App state: the records to be saved
    currentSheet,          \* what getSheetData resolved to
    savePc,                \* where handleAppendData is suspended
    batchOffset,           \* loop index i of handleUpdateMode
    sheetCalls,            \* the arguments of the updateSheetCells calls
    view,                  \* App state: the view shown
    selectedDriveFiles,    \* App state: the files ticked in the Drive list
    llamaParseProgress,    \* App state: empty (null) or the latest progress
    drivePc,               \* where handleProcessDriveFiles is suspended
    batchPc,               \* where processPdfBatch is suspended
    fileIndex,             \* position of processPdfBatch in its files
    batchResults,          \* results of processPdfBatch
    processedCount,        \* processedCount of processPdfBatch
    batchLog,              \* history: what processPdfBatch awaited and
                           \* the progress it delivered
    cancelled              \* history: the user pressed Cancel

vars == << LLAMAPARSE_API_KEY, LLAMAPARSE_BATCH_SIZE, driveFiles, pc, i,
           fileResults, existingSheet, allData, successfulFiles,
           failedFiles, totalStats, log, PROCESSING_TIMEOUT, pollPc,
           elapsed, polls, pollResult, operationType, llamaParseResults,
           existingSheetData, processed, extractedData, currentSheet,
           savePc, batchOffset, sheetCalls, view, selectedDriveFiles,
           llamaParseProgress, drivePc, batchPc, fileIndex, batchResults,
           processedCount, batchLog, cancelled >>

\* a run of handleProcessDriveFiles
driving == << view, selectedDriveFiles, llamaParseProgress, drivePc, batchPc,
              fileIndex, batchResults, processedCount, batchLog, cancelled >>

\* handleProcessDriveFiles has not been called
NotDriving ==
    /\ view = "DRIVE_FILE_SELECTION"
    /\ selectedDriveFiles = <<>>
    /\ llamaParseProgress = <<>>
    /\ drivePc = "idle"
    /\ batchPc = "idle"
    /\ fileIndex = 0
    /\ batchResults = <<>>
    /\ processedCount = 0
    /\ batchLog = <<>>
    /\ cancelled = FALSE

\* a run of handleAppendData
saving == << extractedData, currentSheet, savePc, batchOffset, sheetCalls >>

\* handleAppendData has not been called
NotSaving ==
    /\ extractedData = <<>>
    /\ currentSheet = <<>>
    /\ savePc = "idle"
    /\ batchOffset = 0
    /\ sheetCalls = <<>>

\* the state of pollLlamaParseJob
polling == << PROCESSING_TIMEOUT, pollPc, elapsed, polls, pollResult >>

\* a call of processLlamaParseResults
interpreting ==
    << operationType, llamaParseResults, existingSheetData, processed >>

config == << LLAMAPARSE_API_KEY, LLAMAPARSE_BATCH_SIZE, driveFiles >>

pipeline == << pc, i, fileResults, allData, successfulFiles, failedFiles,
               totalStats, log >>

Stages == << "downloadStatus", "llamaParseStatus", "geminiStatus",
             "sheetsStatus" >>

DriveFile(k) == [id |-> k, name |-> <<"file", k>>]

N == Len(driveFiles)

\* the part of the state the synchronous segments work on
Cur ==
    [ pc |-> pc, i |-> i, fileResults |-> fileResults, allData |-> allData,
      successfulFiles |-> successfulFiles, failedFiles |-> failedFiles,
      totalStats |-> totalStats, log |-> log ]

Commit(s) ==
    /\ pc' = s.pc
    /\ i' = s.i
    /\ fileResults' = s.fileResults
    /\ allData' = s.allData
    /\ successfulFiles' = s.successfulFiles
    /\ failedFiles' = s.failedFiles
    /\ totalStats' = s.totalStats
    /\ log' = s.log

Emit(s, entry) == [s EXCEPT !.log = Append(@, entry)]

\* a capability is invoked
Call(s, cap, idx, arg) ==
    Emit(s, [kind |-> "call", cap |-> cap, file |-> idx, arg |-> arg])

\* an awaited capability call has resolved (ok) or rejected
Settle(s, cap, idx, ok) ==
    Emit(s, [kind |-> "settle", cap |-> cap, file |-> idx, ok |-> ok])

\* fileResult.<stage> = status
SetStatus(s, idx, stage, status) ==
    Emit([s EXCEPT !.fileResults[idx + 1][stage] = status],
         [kind |-> "status", file |-> idx, stage |-> stage,
          status |-> status])

\* ------------------------------------------------------------------------
\* Progress reporting
\* ------------------------------------------------------------------------
\* variant: the persist stage weighs as much as the interpret stage
getCurrentStageWeightFlat(stage) ==
    CASE stage = "download"   -> 0
      [] stage = "llamaparse" -> 1
      [] stage = "gemini"     -> 2
      [] stage = "sheets"     -> 2
      [] stage = "completed"  -> 4
      [] OTHER                -> 0

getCurrentStageWeight(stage) ==
    CASE stage = "download"   -> 0
      [] stage = "llamaparse" -> 1
      [] stage = "gemini"     -> 2
      [] stage = "sheets"     -> 3
      [] stage = "completed"  -> 4
      [] OTHER                -> 0

Min(a, b) == IF a <= b THEN a ELSE b

\* Math.round((completedStages / totalStages) * 100)
\* the stage counts updateProgress can be called with: up to four stages
\* for each of MaxTotalFiles files, and the weight of the current stage
StageCounts == 1..(4 * (MaxTotalFiles + 1))

\* Math.round((completedStages / totalStages) * 100), computed once for
\* every pair of stage counts
Percentages ==
    [completedStages \in StageCounts, totalStages \in StageCounts |->
        MathRound(DoubleMul(DoubleDiv(completedStages, totalStages), 100))]

RoundedPercent(completedStages, totalStages) ==
    IF completedStages = 0 THEN 0
    ELSE Percentages[completedStages, totalStages]

\* variant: only a failed download counts as an error
hasErrorsDownloadOnly(results) ==
    \E list \in {results} :
        \E k \in 1..Len(list) : list[k].downloadStatus = "error"

\* fileResults.some(r => one of the four statuses === 'error')
hasErrors(results) ==
    \E list \in {results} :
        \E k \in 1..Len(list) : \E j \in 1..Len(Stages) :
            list[k][Stages[j]] = "error"

\* variant: the percentage is reported as computed
ClampNone(overallProgress) == overallProgress

\* Math.min(100, overallProgress)
Clamp(overallProgress) == Min(100, overallProgress)

\* the PipelineProgress object updateProgress hands to onProgress
ProgressEvent(files, results, currentFileIndex, currentStage) ==
    LET stagesPerFile   == 4
        completedStages == currentFileIndex * stagesPerFile
                             + getCurrentStageWeight(currentStage)
        totalStages     == Len(files) * stagesPerFile
        overallProgress == RoundedPercent(completedStages, totalStages)
    IN  [ totalFiles       |-> Len(files),
          currentFileIndex |-> currentFileIndex,
          currentFileName  |-> IF currentFileIndex < Len(files)
                               THEN files[currentFileIndex + 1].name
                               ELSE "undefined",
          currentStage     |-> currentStage,
          fileResults      |-> results,
          overallProgress  |-> Clamp(overallProgress),
          isComplete       |-> currentFileIndex = Len(files)
                               /\ currentStage = "completed",
          hasErrors        |-> hasErrors(results) ]

updateProgress(s, currentFileIndex, currentStage) ==
    Emit(s, [kind  |-> "progress",
             event |-> ProgressEvent(driveFiles, s.fileResults,
                                     currentFileIndex, currentStage)])

\* ------------------------------------------------------------------------
\* processFilesSequentialPipeline, segment by segment
\* ------------------------------------------------------------------------
\* variant: the size check lets one file too many through
BatchRejectedOffByOne(files, batchSize) ==
    Len(files) = 0 \/ Len(files) > batchSize + 1

\* the two eager checks on the request
BatchRejected(files, batchSize) ==
    Len(files) = 0 \/ Len(files) > batchSize

\* error and llamaParseJobId are not set yet (empty); an error message is
\* the sequence of its parts
InitialFileResult(file) ==
    [ id |-> file.id, fileName |-> file.name,
      downloadStatus |-> "pending", llamaParseStatus |-> "pending",
      geminiStatus |-> "pending", sheetsStatus |-> "pending",
      error |-> <<>>, llamaParseJobId |-> <<>> ]

\* top of the loop body for file idx, up to the await of downloadFn
BeginFile(s, idx) ==
    LET s1 == updateProgress(s, idx, "download")
        s2 == SetStatus(s1, idx, "downloadStatus", "processing")
        s3 == Call(s2, "downloadFn", idx, driveFiles[idx + 1].id)
    IN  [s3 EXCEPT !.pc = "download", !.i = idx]

\* variant: the final progress update names the first file again
FinishReportsFirstFile(s) ==
    [updateProgress(s, 0, "completed") EXCEPT !.pc = "returned"]

\* the final progress update and the return
Finish(s) ==
    [updateProgress(s, N, "completed") EXCEPT !.pc = "returned"]

\* variant: the final stage writes even when nothing was extracted
WritesSheetAlways(data) == TRUE

\* whether the final stage calls sheetsWriteFn
WritesSheet(data) == Len(data) > 0

\* after the loop: the batched write, up to the await of sheetsWriteFn
FinalStage(s) ==
    IF WritesSheet(s.allData)
    THEN LET s1 == updateProgress(s, N, "sheets")
             s2 == Call(s1, "sheetsWriteFn", -1, s1.allData)
         IN  [s2 EXCEPT !.pc = "sheetsWrite", !.i = N]
    ELSE Finish([s EXCEPT !.i = N])

\* the loop condition, evaluated for index idx
LoopFrom(s, idx) ==
    IF idx < N THEN BeginFile(s, idx) ELSE FinalStage(s)

\* variant: the catch block leaves the stage statuses alone
MarkIfProcessingKeeps(s, idx, stage) == s

\* variant: the catch block marks the stage whatever its status
MarkIfProcessingAlways(s, idx, stage) == SetStatus(s, idx, stage, "error")

\* if (fileResult.<stage> === 'processing') fileResult.<stage> = 'error'
MarkIfProcessing(s, idx, stage) ==
    IF s.fileResults[idx + 1][stage] = "processing"
    THEN SetStatus(s, idx, stage, "error")
    ELSE s

\* variant: the catch block reports the first stage
CatchStageDownload == "download"

\* the stage the catch block reports in its progress event
CatchStage == "gemini"

\* the catch block of the loop body
CatchBlock(s, idx, errorMessage) ==
    LET s1 == [s EXCEPT !.fileResults[idx + 1].error = errorMessage]
        s2 == MarkIfProcessing(s1, idx, "downloadStatus")
        s3 == MarkIfProcessing(s2, idx, "llamaParseStatus")
        s4 == MarkIfProcessing(s3, idx, "geminiStatus")
        s5 == MarkIfProcessing(s4, idx, "sheetsStatus")
        s6 == [s5 EXCEPT !.failedFiles = Append(@, driveFiles[idx + 1].name)]
    IN  updateProgress(s6, idx, CatchStage)

\* variant: no try/catch around the stages, the exception leaves the loop
FileFailsRethrows(s, idx, errorMessage) == [s EXCEPT !.pc = "thrown"]

\* variant: the failure is swallowed without running the catch block
FileFailsUnrecorded(s, idx, errorMessage) == LoopFrom(s, idx + 1)

\* an exception thrown inside the try of file idx: the catch block, then
\* the next iteration
FileFails(s, idx, errorMessage) ==
    LoopFrom(CatchBlock(s, idx, errorMessage), idx + 1)

\* variant: the records of a file are put in front of the accumulated ones
FileSucceedsPrepends(s, idx, geminiResult) ==
    LET s1 == SetStatus(s, idx, "geminiStatus", "completed")
        s2 == updateProgress(s1, idx, "sheets")
        s3 == SetStatus(s2, idx, "sheetsStatus", "processing")
        s4 == [s3 EXCEPT !.allData = geminiResult.data \o @]
        s5 == SetStatus(s4, idx, "sheetsStatus", "completed")
    IN  [s5 EXCEPT
           !.totalStats.filesProcessed = @ + 1,
           !.totalStats.lineItemsFound =
               @ + geminiResult.stats.lineItemsFound,
           !.totalStats.periodsFound = @ + geminiResult.stats.periodsFound,
           !.successfulFiles = Append(@, driveFiles[idx + 1].name)]

\* variant: an interpretation without records is thrown into the catch block
FileSucceedsRejectsEmpty(s, idx, geminiResult) ==
    IF geminiResult.data = <<>>
    THEN CatchBlock(s, idx, << "No data extracted" >>)
    ELSE [s EXCEPT !.allData = @ \o geminiResult.data,
                   !.successfulFiles = Append(@, driveFiles[idx + 1].name)]

\* STAGE 4 and the bookkeeping of a file whose interpretation resolved
FileSucceeds(s, idx, geminiResult) ==
    LET s1 == SetStatus(s, idx, "geminiStatus", "completed")
        s2 == updateProgress(s1, idx, "sheets")
        s3 == SetStatus(s2, idx, "sheetsStatus", "processing")
        s4 == [s3 EXCEPT !.allData = @ \o geminiResult.data]
        s5 == SetStatus(s4, idx, "sheetsStatus", "completed")
        s6 == [s5 EXCEPT
                 !.totalStats.filesProcessed = @ + 1,
                 !.totalStats.lineItemsFound =
                     @ + geminiResult.stats.lineItemsFound,
                 !.totalStats.periodsFound =
                     @ + geminiResult.stats.periodsFound,
                 !.successfulFiles = Append(@, driveFiles[idx + 1].name)]
    IN  s6

\* ------------------------------------------------------------------------
\* Actions
\* ------------------------------------------------------------------------
Init ==
    /\ LLAMAPARSE_API_KEY \in {ConfigKey(env) : env \in EnvKeys}
    /\ LLAMAPARSE_BATCH_SIZE \in 1..MaxBatchSize
    /\ driveFiles \in {[k \in 1..n |-> DriveFile(k)] : n \in 0..MaxFiles}
    /\ pc = "start"
    /\ i = 0
    /\ fileResults = <<>>
    /\ existingSheet = <<>>
    /\ allData = <<>>
    /\ successfulFiles = <<>>
    /\ failedFiles = <<>>
    /\ totalStats = [filesProcessed |-> 0, lineItemsFound |-> 0,
                     periodsFound |-> 0]
    /\ log = <<>>
    /\ PROCESSING_TIMEOUT = MaxTimeout
    /\ pollPc = "idle"
    /\ elapsed = 0
    /\ polls = <<>>
    /\ pollResult = NoResult
    /\ operationType = "create"
    /\ llamaParseResults = <<>>
    /\ existingSheetData = <<>>
    /\ processed = NotCalled
    /\ NotSaving
    /\ NotDriving

\* a request that passed validation: initialisation, up to the await of
\* getExistingSheetFn
BeginRun(s) ==
    LET s1 == [s EXCEPT
                 !.fileResults =
                     [k \in 1..N |-> InitialFileResult(driveFiles[k])]]
        s2 == Call(s1, "getExistingSheetFn", -1, "none")
    IN  [s2 EXCEPT !.pc = "getExistingSheet"]

\* the call: validation, initialisation, up to the await of
\* getExistingSheetFn
Start ==
    /\ pc = "start"
    /\ IF BatchRejected(driveFiles, LLAMAPARSE_BATCH_SIZE)
       THEN /\ pc' = "thrown"
            /\ UNCHANGED << i, fileResults, allData, successfulFiles,
                            failedFiles, totalStats, log >>
       ELSE Commit(BeginRun(Cur))
    /\ UNCHANGED << driving, saving, interpreting, config, existingSheet, polling >>

\* variant: a rejected fetch leaves a snapshot behind
SnapshotAfterKeepsTable(outcome) ==
    IF outcome = "empty" THEN <<>> ELSE ExistingSnapshot

\* existingSheet once getExistingSheetFn has settled: what it resolved to,
\* or the initial [] when it rejected
SnapshotAfter(outcome) ==
    IF outcome = "table" THEN ExistingSnapshot ELSE <<>>

\* getExistingSheetFn settles; the loop starts
GetExistingSheetSettles ==
    /\ pc = "getExistingSheet"
    /\ \E outcome \in SheetOutcomes :
         /\ existingSheet' = SnapshotAfter(outcome)
         /\ Commit(LoopFrom(Settle(Cur, "getExistingSheetFn", -1,
                                   outcome # "throws"), 0))
    /\ UNCHANGED << driving, saving, interpreting, config, polling >>

\* downloadFn resolved for file idx: STAGE 2 starts, up to the await of
\* uploadPdfToLlamaParse, which validates the key before it fetches
DownloadResolved(s, idx) ==
    LET s1 == SetStatus(s, idx, "downloadStatus", "completed")
        s2 == updateProgress(s1, idx, "llamaparse")
        s3 == SetStatus(s2, idx, "llamaParseStatus", "processing")
        s4 == IF validateLlamaParseConfig(LLAMAPARSE_API_KEY) = "ok"
              THEN Call(s3, "uploadFetch", idx, "file")
              ELSE s3
    IN  [s4 EXCEPT !.pc = "upload"]

\* downloadFn settles: the catch block, or STAGE 2
DownloadSettles ==
    /\ pc = "download"
    /\ \E ok \in BOOLEAN :
         LET s0 == Settle(Cur, "downloadFn", i, ok)
         IN  IF ~ok
             THEN Commit(FileFails(s0, i, << "Download failed" >>))
             ELSE Commit(DownloadResolved(s0, i))
    /\ UNCHANGED << driving, saving, interpreting, config, existingSheet, polling >>

\* uploadPdfToLlamaParse resolved for file idx: the job id is kept and
\* pollLlamaParseJob is called
UploadResolved(s, idx) ==
    LET s1 == [s EXCEPT !.fileResults[idx + 1].llamaParseJobId =
                            <<"job", idx>>]
        s2 == Call(s1, "pollLlamaParseJob", idx, <<"job", idx>>)
    IN  [s2 EXCEPT !.pc = "poll"]

\* uploadPdfToLlamaParse settles; on success the job is polled
UploadSettles ==
    /\ pc = "upload"
    /\ LET check == validateLlamaParseConfig(LLAMAPARSE_API_KEY)
       IN  \E ok \in BOOLEAN :
             /\ check # "ok" => ~ok
             /\ LET s0 == Settle(Cur, "uploadPdfToLlamaParse", i, ok)
                IN  IF ~ok
                    THEN Commit(FileFails(s0, i,
                                  IF check # "ok" THEN << check >>
                                  ELSE << "LlamaParse upload failed" >>))
                    ELSE Commit(UploadResolved(s0, i))
    /\ UNCHANGED << driving, saving, interpreting, config, existingSheet, polling >>

\* pollLlamaParseJob returned parseResult for file idx: an unusable result
\* is thrown into the catch block, a usable one starts STAGE 3, up to the
\* await of geminiProcessFn
PollReturned(s, idx, parseResult) ==
    LET usable == parseResult.status = "completed"
                    /\ Truthy(parseResult.jsonData)
        s0 == Settle(s, "pollLlamaParseJob", idx, usable)
    IN  IF ~usable
        THEN FileFails(s0, idx,
                       << "LlamaParse failed",
                          IF parseResult.error # "none"
                          THEN parseResult.error
                          ELSE "Unknown error" >>)
        ELSE LET s1 == SetStatus(s0, idx, "llamaParseStatus", "completed")
                 s2 == updateProgress(s1, idx, "gemini")
                 s3 == SetStatus(s2, idx, "geminiStatus", "processing")
                 s4 == Call(s3, "geminiProcessFn", idx,
                            << parseResult.jsonData, existingSheet >>)
             IN  [s4 EXCEPT !.pc = "gemini"]

\* pollLlamaParseJob returns (any of the results it can return)
PollSettles ==
    /\ pc = "poll"
    /\ \E parseResult \in PollResults :
         Commit(PollReturned(Cur, i, parseResult))
    /\ UNCHANGED << driving, saving, interpreting, config, existingSheet, polling >>

\* geminiProcessFn settles; on success STAGE 4 queues the records and the
\* loop goes on
GeminiSettles ==
    /\ pc = "gemini"
    /\ \/ Commit(FileFails(Settle(Cur, "geminiProcessFn", i, FALSE), i,
                           << "Gemini failed" >>))
       \/ \E geminiResult \in GeminiReturns(i) :
            Commit(LoopFrom(FileSucceeds(Settle(Cur, "geminiProcessFn", i,
                                                TRUE), i, geminiResult),
                            i + 1))
    /\ UNCHANGED << driving, saving, interpreting, config, existingSheet, polling >>

\* variant: a failed write turns every queued file into a failed file
SheetsWriteCatchFailsFiles(s) ==
    [s EXCEPT !.failedFiles = @ \o s.successfulFiles,
              !.successfulFiles = <<>>]

\* the catch around sheetsWriteFn: the failure is logged to the console
SheetsWriteCatch(s) == s

\* variant: a rejected final write leaves the function without the final
\* progress update
SheetsWriteOutcomeRethrows(s, ok) ==
    LET s0 == Settle(s, "sheetsWriteFn", -1, ok)
    IN  IF ok THEN Finish(s0) ELSE [s0 EXCEPT !.pc = "thrown"]

\* the rest of the run once sheetsWriteFn has resolved (ok) or rejected
SheetsWriteOutcome(s, ok) ==
    LET s0 == Settle(s, "sheetsWriteFn", -1, ok)
    IN  Finish(IF ok THEN s0 ELSE SheetsWriteCatch(s0))

\* sheetsWriteFn settles; the final progress update and the return
SheetsWriteSettles ==
    /\ pc = "sheetsWrite"
    /\ \E ok \in BOOLEAN : Commit(SheetsWriteOutcome(Cur, ok))
    /\ UNCHANGED << driving, saving, interpreting, config, existingSheet, polling >>

Next ==
    \/ Start
    \/ GetExistingSheetSettles
    \/ DownloadSettles
    \/ UploadSettles
    \/ PollSettles
    \/ GeminiSettles
    \/ SheetsWriteSettles

Spec == Init /\ [][Next]_vars

\* the awaits of the pipeline: each is a capability call that resolves or
\* rejects
Settles ==
    \/ GetExistingSheetSettles
    \/ DownloadSettles
    \/ UploadSettles
    \/ PollSettles
    \/ GeminiSettles
    \/ SheetsWriteSettles

\* every capability call the pipeline awaits settles
SpecLive == Spec /\ WF_pipeline(Settles)

\* ------------------------------------------------------------------------
\* updateProgress on its own: every call the pipeline can make of it, for
\* every batch size up to MaxTotalFiles
\* ------------------------------------------------------------------------
\* the (currentFileIndex, currentStage) pairs of the call sites
ProgressCallSites(n) ==
    {<<idx, stage>> : idx \in 0..(n - 1),
                      stage \in {"download", "llamaparse", "gemini", "sheets"}}
      \cup {<<n, "sheets">>, <<n, "completed">>}

InitProgress ==
    /\ LLAMAPARSE_API_KEY = <<"l", "l", "x", "-", "1">>
    /\ LLAMAPARSE_BATCH_SIZE = MaxTotalFiles
    /\ driveFiles \in {[k \in 1..n |-> DriveFile(k)] : n \in 1..MaxTotalFiles}
    /\ pc = "updateProgress"
    /\ i = 0
    /\ fileResults = [k \in 1..N |-> InitialFileResult(driveFiles[k])]
    /\ existingSheet = <<>>
    /\ allData = <<>>
    /\ successfulFiles = <<>>
    /\ failedFiles = <<>>
    /\ totalStats = [filesProcessed |-> 0, lineItemsFound |-> 0,
                     periodsFound |-> 0]
    /\ log = <<>>
    /\ PROCESSING_TIMEOUT = MaxTimeout
    /\ pollPc = "idle"
    /\ elapsed = 0
    /\ polls = <<>>
    /\ pollResult = NoResult
    /\ operationType = "create"
    /\ llamaParseResults = <<>>
    /\ existingSheetData = <<>>
    /\ processed = NotCalled
    /\ NotSaving
    /\ NotDriving

\* one call of updateProgress; the history keeps the latest event only
UpdateProgressCall ==
    /\ pc = "updateProgress"
    /\ \E site \in ProgressCallSites(N) :
         Commit(updateProgress([Cur EXCEPT !.log = <<>>], site[1], site[2]))
    /\ UNCHANGED << driving, saving, interpreting, config, existingSheet, polling >>

NextProgress == UpdateProgressCall

SpecProgress == InitProgress /\ [][NextProgress]_vars

\* ------------------------------------------------------------------------
\* pollLlamaParseJob, await by await.  Time is counted in seconds and only
\* as far as the loop condition can tell: elapsed stops at
\* PROCESSING_TIMEOUT.
\* ------------------------------------------------------------------------
\* const pollInterval = 2000 (milliseconds)
pollInterval == 2

\* how long an awaited request can take
Latencies == 0..MaxLatency

\* variant: the timer fires at once
SleepDurationsNone == {0}

\* setTimeout(resolve, pollInterval) fires after pollInterval at the
\* earliest
SleepDurations == {pollInterval + late : late \in Latencies}

\* Date.now() - startTime once dt more seconds have passed
Later(dt) == Min(elapsed + dt, PROCESSING_TIMEOUT)

\* a job status body without any of the fields the code looks at
Body ==
    [ status |-> "PENDING", result |-> "absent", pages |-> "absent",
      content |-> "absent", output |-> "absent", data |-> "absent",
      parsed_text |-> "absent", json |-> "absent", document |-> "absent",
      error |-> "absent" ]

\* the bodies GET /job/{id} answers with; "absent" is a missing (or falsy)
\* field, result is an object with one key ("idOnly") or more ("object")
JobResponses ==
    { Body,
      [Body EXCEPT !.result = "object"],
      [Body EXCEPT !.status = "ERROR", !.error = "Parse failed"],
      [Body EXCEPT !.status = "ERROR"],
      [Body EXCEPT !.status = "SUCCESS"],
      [Body EXCEPT !.status = "SUCCESS", !.result = "idOnly"],
      [Body EXCEPT !.status = "SUCCESS", !.result = "object"],
      [Body EXCEPT !.status = "SUCCESS", !.result = "idOnly",
                   !.pages = "array"],
      [Body EXCEPT !.status = "SUCCESS", !.pages = "notArray",
                   !.content = "content"],
      [Body EXCEPT !.status = "SUCCESS", !.output = "output"],
      [Body EXCEPT !.status = "SUCCESS", !.data = "data"],
      [Body EXCEPT !.status = "SUCCESS", !.parsed_text = "parsed_text"],
      [Body EXCEPT !.status = "SUCCESS", !.json = "json"],
      [Body EXCEPT !.status = "SUCCESS", !.document = "document",
                   !.error = "ignored"],
      [Body EXCEPT !.status = "SUCCESS", !.result = "object",
                   !.pages = "array", !.content = "content"],
      [Body EXCEPT !.status = "SUCCESS", !.pages = "array",
                   !.content = "content", !.output = "output"],
      [Body EXCEPT !.status = "SUCCESS", !.content = "content",
                   !.output = "output", !.data = "data"],
      [Body EXCEPT !.status = "SUCCESS", !.output = "output",
                   !.data = "data", !.parsed_text = "parsed_text"],
      [Body EXCEPT !.status = "SUCCESS", !.data = "data",
                   !.parsed_text = "parsed_text", !.json = "json"],
      [Body EXCEPT !.status = "SUCCESS", !.parsed_text = "parsed_text",
                   !.json = "json", !.document = "document"] }

\* what the markdown endpoint's body can parse to
MarkdownValues == { "markdown", "null" }

\* variant: the pages array is looked at before the result object, the
\* remaining fields from the last to the first
DirectDataReordered(result) ==
    IF result.pages = "array" THEN result.pages
    ELSE IF result.result = "object" THEN result.result
    ELSE IF result.document # "absent" THEN result.document
    ELSE IF result.json # "absent" THEN result.json
    ELSE IF result.parsed_text # "absent" THEN result.parsed_text
    ELSE IF result.data # "absent" THEN result.data
    ELSE IF result.output # "absent" THEN result.output
    ELSE IF result.content # "absent" THEN result.content
    ELSE "null"

\* jsonData as taken from the status body itself, "null" if it has none
DirectData(result) ==
    IF result.result = "object" THEN result.result
    ELSE IF result.pages = "array" THEN result.pages
    ELSE IF result.content # "absent" THEN result.content
    ELSE IF result.output # "absent" THEN result.output
    ELSE IF result.data # "absent" THEN result.data
    ELSE IF result.parsed_text # "absent" THEN result.parsed_text
    ELSE IF result.json # "absent" THEN result.json
    ELSE IF result.document # "absent" THEN result.document
    ELSE "null"

\* the three LlamaParseResults the function builds
Completed(jsonData) ==
    [status |-> "completed", jsonData |-> jsonData, error |-> "none"]

Failed(message) ==
    [status |-> "error", jsonData |-> "undefined", error |-> message]

TimeoutResult == Failed("Processing timeout exceeded")

\* variant: no catch around the loop body, the exception leaves the function
CaughtRethrows(message) == [pc |-> "thrown", result |-> NoResult]

\* the catch of the loop body: the exception becomes the result
Caught(message) == [pc |-> "returned", result |-> Failed(message)]

Return(result) == pollPc' = "returned" /\ pollResult' = result

Throw(message) ==
    pollPc' = Caught(message).pc /\ pollResult' = Caught(message).result

\* the request in flight has been answered
Answer(now, outcome) ==
    polls' = [polls EXCEPT ![Len(polls)] =
                 [@ EXCEPT !.answered = now, !.outcome = outcome]]

\* the while condition at time now: the next status request, or the
\* timeout result
LoopTop(now) ==
    /\ elapsed' = now
    /\ IF now < PROCESSING_TIMEOUT
       THEN /\ pollPc' = "statusFetch"
            /\ polls' = Append(polls, [started |-> now, answered |-> now,
                                       outcome |-> "inFlight",
                                       body |-> Body,
                                       markdown |-> "notAsked"])
            /\ pollResult' = pollResult
       ELSE /\ Return(TimeoutResult)
            /\ polls' = polls

\* a run of the pipeline with a valid key, followed up to the return of
\* its first call of pollLlamaParseJob
InitPoll ==
    /\ LLAMAPARSE_API_KEY = <<"l", "l", "x", "-", "1">>
    /\ LLAMAPARSE_BATCH_SIZE = MaxBatchSize
    /\ driveFiles \in {[k \in 1..n |-> DriveFile(k)] : n \in 1..MaxBatchSize}
    /\ pc = "start"
    /\ i = 0
    /\ fileResults = <<>>
    /\ existingSheet = <<>>
    /\ allData = <<>>
    /\ successfulFiles = <<>>
    /\ failedFiles = <<>>
    /\ totalStats = [filesProcessed |-> 0, lineItemsFound |-> 0,
                     periodsFound |-> 0]
    /\ log = <<>>
    /\ PROCESSING_TIMEOUT \in 0..MaxTimeout
    /\ pollPc = "idle"
    /\ elapsed = 0
    /\ polls = <<>>
    /\ pollResult = NoResult
    /\ operationType = "create"
    /\ llamaParseResults = <<>>
    /\ existingSheetData = <<>>
    /\ processed = NotCalled
    /\ NotSaving
    /\ NotDriving

\* the call: startTime is taken and the loop condition evaluated
PollStart ==
    /\ pc = "poll"
    /\ pollPc = "idle"
    /\ LoopTop(0)
    /\ UNCHANGED << driving, saving, interpreting, config, existingSheet, pipeline, PROCESSING_TIMEOUT >>

\* fetch(.../job/{id}) settles: rejected, answered with a non-2xx status,
\* or answered ok, up to the await of response.json()
StatusFetchSettles ==
    /\ pollPc = "statusFetch"
    /\ \E dt \in Latencies, outcome \in {"rejected", "notOk", "ok"} :
         /\ elapsed' = Later(dt)
         /\ CASE outcome = "rejected" ->
                   Answer(Later(dt), "rejected") /\ Throw("Failed to fetch")
              [] outcome = "notOk" ->
                   /\ Answer(Later(dt), "notOk")
                   /\ Throw("Failed to check job status")
              [] outcome = "ok" ->
                   /\ pollPc' = "statusJson"
                   /\ UNCHANGED << polls, pollResult >>
    /\ UNCHANGED << driving, saving, interpreting, config, existingSheet, pipeline, PROCESSING_TIMEOUT >>

\* the status body was parsed: the job's status decides
StatusParsed(now, result) ==
    /\ polls' = [polls EXCEPT ![Len(polls)] =
                    [@ EXCEPT !.answered = now, !.outcome = result.status,
                              !.body = result,
                              !.markdown =
                                  IF result.status = "SUCCESS"
                                     /\ DirectData(result) = "null"
                                  THEN "asked" ELSE "notAsked"]]
    /\ IF result.status = "SUCCESS"
       THEN IF DirectData(result) # "null"
            THEN Return(Completed(DirectData(result)))
            ELSE pollPc' = "markdownFetch" /\ pollResult' = pollResult
       ELSE IF result.status = "ERROR"
       THEN Return(Failed(IF result.error # "absent" THEN result.error
                          ELSE "Unknown LlamaParse error"))
       ELSE pollPc' = "sleep" /\ pollResult' = pollResult

\* response.json() settles: the body does not parse, or it is a job status
StatusJsonSettles ==
    /\ pollPc = "statusJson"
    /\ \E dt \in Latencies :
         /\ elapsed' = Later(dt)
         /\ \/ Answer(Later(dt), "badJson") /\ Throw("Unexpected token")
            \/ \E result \in JobResponses : StatusParsed(Later(dt), result)
    /\ UNCHANGED << driving, saving, interpreting, config, existingSheet, pipeline, PROCESSING_TIMEOUT >>

\* the timer fires: the loop condition again
SleepResolves ==
    /\ pollPc = "sleep"
    /\ \E dt \in SleepDurations : LoopTop(Later(dt))
    /\ UNCHANGED << driving, saving, interpreting, config, existingSheet, pipeline, PROCESSING_TIMEOUT >>

\* fetch(.../result/markdown) settles: a rejection and a non-2xx answer
\* leave jsonData null, an ok answer is parsed
MarkdownFetchSettles ==
    /\ pollPc = "markdownFetch"
    /\ \E dt \in Latencies, outcome \in {"rejected", "notOk", "ok"} :
         /\ elapsed' = Later(dt)
         /\ polls' = [polls EXCEPT ![Len(polls)].markdown = outcome]
         /\ IF outcome = "ok"
            THEN pollPc' = "markdownJson" /\ pollResult' = pollResult
            ELSE Return(Completed("null"))
    /\ UNCHANGED << driving, saving, interpreting, config, existingSheet, pipeline,
                    PROCESSING_TIMEOUT >>

\* markdownResponse.json() settles: jsonData is what it resolves to, or
\* stays null when it rejects
MarkdownJsonSettles ==
    /\ pollPc = "markdownJson"
    /\ \E dt \in Latencies :
         /\ elapsed' = Later(dt)
         /\ \/ /\ polls' = [polls EXCEPT ![Len(polls)].markdown = "badJson"]
               /\ Return(Completed("null"))
            \/ \E value \in MarkdownValues :
                 /\ polls' = [polls EXCEPT ![Len(polls)].markdown = value]
                 /\ Return(Completed(value))
    /\ UNCHANGED << driving, saving, interpreting, config, existingSheet, pipeline,
                    PROCESSING_TIMEOUT >>

\* the orchestrator's await of pollLlamaParseJob resumes with the result
PollLlamaParseJobReturns ==
    /\ pollPc = "returned"
    /\ pc = "poll"
    /\ Commit(PollReturned(Cur, i, pollResult))
    /\ pollPc' = "done"
    /\ UNCHANGED << driving, saving, interpreting, config, existingSheet, PROCESSING_TIMEOUT, elapsed, polls,
                    pollResult >>

\* the pipeline before its first call of pollLlamaParseJob
BeforePoll ==
    /\ pollPc = "idle"
    /\ \/ Start
       \/ GetExistingSheetSettles
       \/ DownloadSettles
       \/ UploadSettles

NextPoll ==
    \/ BeforePoll
    \/ PollStart
    \/ StatusFetchSettles
    \/ StatusJsonSettles
    \/ SleepResolves
    \/ MarkdownFetchSettles
    \/ MarkdownJsonSettles
    \/ PollLlamaParseJobReturns

SpecPoll == InitPoll /\ [][NextPoll]_vars

\* the steps of pollLlamaParseJob itself
PollSteps ==
    \/ PollStart
    \/ StatusFetchSettles
    \/ StatusJsonSettles
    \/ SleepResolves
    \/ MarkdownFetchSettles
    \/ MarkdownJsonSettles

\* every request and timer pollLlamaParseJob awaits settles
SpecPollLive == SpecPoll /\ WF_polling(PollSteps)

\* ------------------------------------------------------------------------
\* processLlamaParseResults (geminiService.ts).  A record of the table is
\* an object: a function from its keys ('lineItem' and the period
\* headers) to strings.
\* ------------------------------------------------------------------------
\* what ai.models.generateContent answers for a document
NoText == [kind |-> "none", headers |-> <<>>, rows |-> <<>>, items |-> <<>>]

Rejected ==
    [kind |-> "error", headers |-> <<>>, rows |-> <<>>, items |-> <<>>]

\* text on which JSON.parse throws
Malformed ==
    [kind |-> "malformed", headers |-> <<>>, rows |-> <<>>, items |-> <<>>]

\* text that parses to an object without headers and rows
OtherObject ==
    [kind |-> "object", headers |-> <<>>, rows |-> <<>>, items |-> <<>>]

Table(headers, rows) ==
    [kind |-> "table", headers |-> headers, rows |-> rows, items |-> <<>>]

\* text that parses to an array
BareArray(items) ==
    [kind |-> "array", headers |-> <<>>, rows |-> <<>>, items |-> items]

\* the parsed documents the function can be given, each with the answer
\* the model gives for it
Documents ==
    { [fileName |-> "A",
       response |-> Table(<<"Line Item", "2023">>, << <<"Revenue", "100">> >>)],
      [fileName |-> "B",
       response |-> Table(<<"Line Item", "2024">>, << <<"Revenue", "120">> >>)],
      [fileName |-> "C",
       response |-> Table(<<"Line Item", "2023", "2024">>,
                          << <<"Revenue", "105">>,
                             <<"Costs", "50", "55">> >>)],
      [fileName |-> "D", response |-> NoText],
      [fileName |-> "E", response |-> Rejected],
      [fileName |-> "F",
       response |-> Table(<<"Line Item", "2025">>,
                          << <<"Costs", "60">>, <<"Costs", "70">> >>)],
      [fileName |-> "G",
       response |-> BareArray(<< ("lineItem" :> "Revenue") @@ ("2023" :> "90"),
                                 ("2023" :> "7") >>)],
      [fileName |-> "H", response |-> Malformed],
      [fileName |-> "I", response |-> OtherObject],
      [fileName |-> "J",
       response |-> Table(<<"Line Item", "2024">>, << <<>> >>)] }

\* item.lineItem; a property the object does not have reads as undefined
lineItemOf(item) ==
    IF "lineItem" \in DOMAIN item THEN item["lineItem"] ELSE "undefined"

\* const item = { lineItem: row[0] }; headers.slice(1).forEach(...):
\* item[header] = row[index + 1] || ''
RowToItem(headers, row) ==
    [ key \in {"lineItem"} \cup {headers[j] : j \in 2..Len(headers)} |->
        IF key = "lineItem"
        THEN IF Len(row) >= 1 THEN row[1] ELSE "undefined"
        ELSE LET j == CHOOSE c \in 2..Len(headers) :
                        /\ headers[c] = key
                        /\ \A later \in (c + 1)..Len(headers) :
                             headers[later] # key
             IN  IF j <= Len(row) THEN row[j] ELSE "" ]

\* the records extracted from one document: the rows of a table as
\* objects, a parsed array as it is, and none when the model gives no
\* text, the text does not parse, it parses to something else or the call
\* fails
processSingleLlamaParseResult(singleResult) ==
    LET response == singleResult.response
    IN  IF response.kind = "table"
        THEN [r \in 1..Len(response.rows) |->
                 RowToItem(response.headers, response.rows[r])]
        ELSE IF response.kind = "array" THEN response.items
        ELSE <<>>

\* allData.findIndex(item => item.lineItem === newItem.lineItem), counted
\* from 1; 0 when there is none
findIndex(data, newItem) ==
    IF \E k \in 1..Len(data) : lineItemOf(data[k]) = lineItemOf(newItem)
    THEN CHOOSE k \in 1..Len(data) :
            /\ lineItemOf(data[k]) = lineItemOf(newItem)
            /\ \A before \in 1..(k - 1) :
                 lineItemOf(data[before]) # lineItemOf(newItem)
    ELSE 0

\* Object.assign(target, source)
ObjectAssign(target, source) ==
    [ key \in (DOMAIN target) \cup (DOMAIN source) |->
        IF key \in DOMAIN source THEN source[key] ELSE target[key] ]

\* variant: every record is added as a new row
MergeItemAppends(data, newItem) == Append(data, newItem)

\* the body of the inner loop of UPDATE mode
MergeItem(data, newItem) ==
    LET existingIndex == findIndex(data, newItem)
    IN  IF existingIndex >= 1
        THEN [data EXCEPT ![existingIndex] = ObjectAssign(@, newItem)]
        ELSE Append(data, newItem)

\* for (const newItem of singleData) ..., from item k on
RECURSIVE MergeItems(_, _, _)
MergeItems(data, singleData, k) ==
    IF k > Len(singleData) THEN data
    ELSE MergeItems(MergeItem(data, singleData[k]), singleData, k + 1)

\* the outer loop of UPDATE mode, from document d on
RECURSIVE UpdateFrom(_, _, _)
UpdateFrom(data, results, d) ==
    IF d > Len(results) THEN data
    ELSE UpdateFrom(
           MergeItems(data, processSingleLlamaParseResult(results[d]), 1),
           results, d + 1)

\* variant: CREATE mode takes the structure from the last document
lastFile(results) == results[Len(results)]

\* const firstFile = llamaParseResults[0]
firstFile(results) == results[1]

\* the period keys that hold a non-blank value in some record
periodSet(data) ==
    UNION { {key \in DOMAIN data[k] :
                key # "lineItem" /\ data[k][key] \notin {"", " "}} :
            k \in 1..Len(data) }

Threw(message) == [NotCalled EXCEPT !.status = "threw", !.error = message]

processLlamaParseResults(results, sheet, mode) ==
    IF Len(results) = 0 THEN Threw("No LlamaParse results provided")
    ELSE IF mode = "update" /\ Len(sheet) = 0
    THEN Threw("UPDATE mode requires existing sheet data")
    ELSE LET data == IF mode = "create"
                     THEN processSingleLlamaParseResult(firstFile(results))
                     ELSE UpdateFrom(<<>>, results, 1)
         IN  [ status |-> "returned",
               data   |-> data,
               sent   |-> IF mode = "create" THEN << firstFile(results) >>
                          ELSE results,
               error  |-> "none",
               stats  |-> [filesProcessed |-> Len(results),
                           lineItemsFound |-> Len(data),
                           periodsFound |-> Cardinality(periodSet(data))] ]

InitGemini ==
    /\ LLAMAPARSE_API_KEY = <<"l", "l", "x", "-", "1">>
    /\ LLAMAPARSE_BATCH_SIZE = MaxBatchSize
    /\ driveFiles = <<>>
    /\ pc = "start"
    /\ i = 0
    /\ fileResults = <<>>
    /\ existingSheet = <<>>
    /\ allData = <<>>
    /\ successfulFiles = <<>>
    /\ failedFiles = <<>>
    /\ totalStats = [filesProcessed |-> 0, lineItemsFound |-> 0,
                     periodsFound |-> 0]
    /\ log = <<>>
    /\ PROCESSING_TIMEOUT = MaxTimeout
    /\ pollPc = "idle"
    /\ elapsed = 0
    /\ polls = <<>>
    /\ pollResult = NoResult
    /\ operationType \in {"create", "update"}
    /\ llamaParseResults \in
         UNION {[1..n -> Documents] : n \in 0..MaxDocuments}
    /\ existingSheetData \in {<<>>, ExistingSnapshot}
    /\ processed = NotCalled
    /\ NotSaving
    /\ NotDriving

\* one call of processLlamaParseResults, from the call to its return or
\* throw
ProcessLlamaParseResultsCall ==
    /\ processed.status = "notCalled"
    /\ processed' = processLlamaParseResults(llamaParseResults,
                                             existingSheetData,
                                             operationType)
    /\ UNCHANGED << driving, saving, config, existingSheet, pipeline, polling,
                    operationType,
                    llamaParseResults, existingSheetData >>

NextGemini == ProcessLlamaParseResultsCall

SpecGemini == InitGemini /\ [][NextGemini]_vars

\* ------------------------------------------------------------------------
\* handleAppendData, handleCreateMode and handleUpdateMode (App.tsx).  A
\* range `${col}${row}:${col}${row}` is the record of its four parts.
\* ------------------------------------------------------------------------
MaxRecords == 3

BATCH_SIZE == 10

\* the period labels that occur, in the order Array.prototype.sort()
\* puts them in (by UTF-16 code units)
Labels ==
    << "2014", "2015", "2016", "2017", "2018", "2019", "2020", "2021",
       "2022", "2023", "2024", "2025", "Q1 2024" >>

\* variant: the keys in descending order
sortDescending(keys) ==
    LET ascending == SelectSeq(Labels, LAMBDA label : label \in keys)
    IN  [n \in 1..Len(ascending) |-> ascending[Len(ascending) + 1 - n]]

\* Array.from(keys).sort()
sort(keys) == SelectSeq(Labels, LAMBDA label : label \in keys)

\* the characters with the code units 65 to 95
CodeUnits ==
    << "A", "B", "C", "D", "E", "F", "G", "H", "I", "J", "K", "L", "M",
       "N", "O", "P", "Q", "R", "S", "T", "U", "V", "W", "X", "Y", "Z",
       "[", "backslash", "]", "^", "_", "backtick",
       "a", "b", "c", "d", "e", "f", "g", "h", "i", "j", "k", "l", "m" >>

\* String.fromCharCode(code)
fromCharCode(code) == CodeUnits[code - 64]

Range(startCol, startRow, endCol, endRow) ==
    [ startCol |-> fromCharCode(65 + startCol), startRow |-> startRow,
      endCol |-> fromCharCode(65 + endCol), endRow |-> endRow ]

\* item[period] || ''
valueOr(item, period) == IF period \in DOMAIN item THEN item[period] ELSE ""

\* the keys other than lineItem of all records, those in excluded left out
periodKeys(data, excluded) ==
    UNION { {key \in DOMAIN data[k] :
                key # "lineItem" /\ key \notin excluded} :
            k \in 1..Len(data) }

\* the records the interpretation can have left in extractedData
Extracted ==
    { ("lineItem" :> "Revenue") @@ ("2023" :> "100") @@ ("2024" :> "120"),
      ("lineItem" :> "Costs") @@ ("2024" :> "55") @@ ("Q1 2024" :> ""),
      ("lineItem" :> "Costs") @@ ("2025" :> "70"),
      ("lineItem" :> "Margin") @@ ("2022" :> "7"),
      [key \in {"lineItem"} \cup {Labels[n] : n \in 1..12} |->
          IF key = "lineItem" THEN "Revenue" ELSE "1"] }

\* what getSheetData can resolve to
SheetTables ==
    { <<>>,
      << <<"lineItem", "2023">> >>,
      << <<"lineItem", "2023">>, <<"Revenue", "100">>, <<"Costs", "50">> >>,
      << <<"lineItem", "2023", "2024">>, <<"Costs", "50", "55">>,
         <<"Other", "1", "2">>, <<"Revenue", "100", "120">> >> }

\* handleCreateMode: the header row and its range
headerUpdate(periods) ==
    [ range  |-> Range(0, 1, Len(periods), 1),
      values |-> << << "lineItem" >> \o periods >> ]

\* handleCreateMode: the row of record idx (from 0) and its range
rowUpdate(item, periods, idx) ==
    [ range  |-> Range(0, idx + 2, Len(periods), idx + 2),
      values |-> << << lineItemOf(item) >>
                     \o [n \in 1..Len(periods) |->
                            valueOr(item, periods[n])] >> ]

\* currentSheet[0]?.slice(1) || []
existingPeriods(sheet) ==
    IF Len(sheet) >= 1 /\ Len(sheet[1]) >= 1 THEN Tail(sheet[1]) ELSE <<>>

\* currentSheet.slice(1).map(row => row[0])
existingLineItems(sheet) ==
    [r \in 1..(Len(sheet) - 1) |->
        IF Len(sheet[r + 1]) >= 1 THEN sheet[r + 1][1] ELSE "undefined"]

\* variant: the first record is taken, whatever its line item
findFirstRecord(data, lineItem) == IF Len(data) >= 1 THEN 1 ELSE 0

\* extractedData.find(item => item.lineItem === lineItem), as a position
\* counted from 1; 0 when there is none
find(data, lineItem) ==
    IF \E k \in 1..Len(data) : lineItemOf(data[k]) = lineItem
    THEN CHOOSE k \in 1..Len(data) :
            /\ lineItemOf(data[k]) = lineItem
            /\ \A before \in 1..(k - 1) : lineItemOf(data[before]) # lineItem
    ELSE 0

sortedNewPeriods(data, sheet) ==
    sort(periodKeys(data, {existingPeriods(sheet)[n] :
                              n \in 1..Len(existingPeriods(sheet))}))

\* variant: the new columns start one column further left
batchStartColIndexNoLineItem(sheet, offset) ==
    Len(existingPeriods(sheet)) + offset

\* existingPeriods.length + 1 + i
batchStartColIndex(sheet, offset) == Len(existingPeriods(sheet)) + 1 + offset

\* the updates of the batch that starts at offset: the new headers, then
\* one row of values per existing row whose line item has a record with
\* a value for some period of the batch
batchUpdates(data, sheet, offset) ==
    LET periods      == sortedNewPeriods(data, sheet)
        batchPeriods == SubSeq(periods, offset + 1,
                               Min(offset + BATCH_SIZE, Len(periods)))
        startCol     == batchStartColIndex(sheet, offset)
        endCol       == startCol + Len(batchPeriods) - 1
        lineItems    == existingLineItems(sheet)
        newValues(rowIndex) ==
            [n \in 1..Len(batchPeriods) |->
                valueOr(data[find(data, lineItems[rowIndex + 1])],
                        batchPeriods[n])]
        written(rowIndex) ==
            /\ find(data, lineItems[rowIndex + 1]) # 0
            /\ \E n \in 1..Len(batchPeriods) : newValues(rowIndex)[n] # ""
        rowIndexes   == SelectSeq([r \in 1..Len(lineItems) |-> r - 1], written)
    IN  << [range |-> Range(startCol, 1, endCol, 1),
            values |-> << batchPeriods >>] >>
          \o [n \in 1..Len(rowIndexes) |->
                [range  |-> Range(startCol, rowIndexes[n] + 2,
                                  endCol, rowIndexes[n] + 2),
                 values |-> << newValues(rowIndexes[n]) >>]]

\* handleCreateMode up to its first await
CreateModeStarts(data) ==
    /\ savePc' = "header"
    /\ sheetCalls' = Append(sheetCalls,
                            << headerUpdate(sort(periodKeys(data, {}))) >>)
    /\ batchOffset' = batchOffset

\* the for loop of handleUpdateMode from offset on, up to the next await
UpdateModeFrom(data, sheet, offset) ==
    IF offset < Len(sortedNewPeriods(data, sheet))
    THEN /\ savePc' = "batch"
         /\ batchOffset' = offset
         /\ sheetCalls' = Append(sheetCalls, batchUpdates(data, sheet, offset))
    ELSE /\ savePc' = "returned"
         /\ batchOffset' = offset
         /\ sheetCalls' = sheetCalls

\* the records are there, the sheet has not been read
InitSave ==
    /\ LLAMAPARSE_API_KEY = <<"l", "l", "x", "-", "1">>
    /\ LLAMAPARSE_BATCH_SIZE = MaxBatchSize
    /\ driveFiles = <<>>
    /\ pc = "start"
    /\ i = 0
    /\ fileResults = <<>>
    /\ existingSheet = <<>>
    /\ allData = <<>>
    /\ successfulFiles = <<>>
    /\ failedFiles = <<>>
    /\ totalStats = [filesProcessed |-> 0, lineItemsFound |-> 0,
                     periodsFound |-> 0]
    /\ log = <<>>
    /\ PROCESSING_TIMEOUT = MaxTimeout
    /\ pollPc = "idle"
    /\ elapsed = 0
    /\ polls = <<>>
    /\ pollResult = NoResult
    /\ operationType = "create"
    /\ llamaParseResults = <<>>
    /\ existingSheetData = <<>>
    /\ processed = NotCalled
    /\ extractedData \in UNION {[1..n -> Extracted] : n \in 0..MaxRecords}
    /\ currentSheet = <<>>
    /\ savePc = "idle"
    /\ batchOffset = 0
    /\ sheetCalls = <<>>
    /\ NotDriving

outsideSave ==
    << config, existingSheet, pipeline, polling, interpreting, driving >>

\* handleAppendData up to its await of getSheetData; without records it
\* sets the error and returns
HandleAppendData ==
    /\ savePc = "idle"
    /\ savePc' = IF Len(extractedData) = 0 THEN "refused" ELSE "getSheetData"
    /\ UNCHANGED << outsideSave, extractedData, currentSheet, batchOffset,
                    sheetCalls >>

\* getSheetData settles: handleCreateMode or handleUpdateMode is entered,
\* or the catch of handleAppendData
GetSheetDataSettles ==
    /\ savePc = "getSheetData"
    /\ \/ /\ savePc' = "failed"
          /\ UNCHANGED << currentSheet, batchOffset, sheetCalls >>
       \/ \E sheet \in SheetTables :
            /\ currentSheet' = sheet
            /\ IF Len(sheet) > 1
               THEN UpdateModeFrom(extractedData, sheet, 0)
               ELSE CreateModeStarts(extractedData)
    /\ UNCHANGED << outsideSave, extractedData >>

\* the write of the header row settles: the rows are written next
HeaderWriteSettles ==
    /\ savePc = "header"
    /\ \/ savePc' = "failed" /\ sheetCalls' = sheetCalls
       \/ IF Len(extractedData) = 0
          THEN savePc' = "returned" /\ sheetCalls' = sheetCalls
          ELSE /\ savePc' = "rows"
               /\ sheetCalls' =
                    Append(sheetCalls,
                           [k \in 1..Len(extractedData) |->
                              rowUpdate(extractedData[k],
                                        sort(periodKeys(extractedData, {})),
                                        k - 1)])
    /\ UNCHANGED << outsideSave, extractedData, currentSheet, batchOffset >>

\* the write of the rows settles
RowsWriteSettles ==
    /\ savePc = "rows"
    /\ savePc' \in {"failed", "returned"}
    /\ UNCHANGED << outsideSave, extractedData, currentSheet, batchOffset,
                    sheetCalls >>

\* variant: the loop advances by one period
nextOffsetByOne(offset) == offset + 1

\* i += BATCH_SIZE
nextOffset(offset) == offset + BATCH_SIZE

\* the write of a batch of new columns settles: the next batch
BatchWriteSettles ==
    /\ savePc = "batch"
    /\ \/ /\ savePc' = "failed"
          /\ UNCHANGED << batchOffset, sheetCalls >>
       \/ UpdateModeFrom(extractedData, currentSheet,
                         nextOffset(batchOffset))
    /\ UNCHANGED << outsideSave, extractedData, currentSheet >>

NextSave ==
    \/ HandleAppendData
    \/ GetSheetDataSettles
    \/ HeaderWriteSettles
    \/ RowsWriteSettles
    \/ BatchWriteSettles

SpecSave == InitSave /\ [][NextSave]_vars

\* a sheet that already has 25 period columns, B to Z
WideTable ==
    LET years == << "1989", "1990", "1991", "1992", "1993", "1994", "1995",
                    "1996", "1997", "1998", "1999", "2000", "2001", "2002",
                    "2003", "2004", "2005", "2006", "2007", "2008", "2009",
                    "2010", "2011", "2012", "2013" >>
    IN  << << "lineItem" >> \o years,
           << "Revenue" >> \o [n \in 1..Len(years) |-> "1"],
           << "Costs" >> \o [n \in 1..Len(years) |-> "2"] >>

\* getSheetData settles, the wide sheet being one of the sheets it can
\* resolve to
GetSheetDataSettlesWide ==
    /\ savePc = "getSheetData"
    /\ \/ /\ savePc' = "failed"
          /\ UNCHANGED << currentSheet, batchOffset, sheetCalls >>
       \/ \E sheet \in SheetTables \cup {WideTable} :
            /\ currentSheet' = sheet
            /\ IF Len(sheet) > 1
               THEN UpdateModeFrom(extractedData, sheet, 0)
               ELSE CreateModeStarts(extractedData)
    /\ UNCHANGED << outsideSave, extractedData >>

NextSaveWide ==
    \/ HandleAppendData
    \/ GetSheetDataSettlesWide
    \/ HeaderWriteSettles
    \/ RowsWriteSettles
    \/ BatchWriteSettles

\* handleAppendData against sheets of up to 26 columns
SpecSaveWide == InitSave /\ [][NextSaveWide]_vars

\* ------------------------------------------------------------------------
\* handleProcessDriveFiles (App.tsx) and the processPdfBatch it awaits
\* (llamaParseService.ts), with the Cancel button of the PROCESSING view
\* ------------------------------------------------------------------------
\* Promise.all(selectedDriveFiles.map(downloadPdfFromDrive)): one File per
\* selected file, in order
downloadedFiles ==
    [k \in 1..Len(selectedDriveFiles) |-> [name |-> selectedDriveFiles[k].name]]

\* the mutable state of processPdfBatch and what its callback has set
Batch ==
    [ results |-> batchResults, count |-> processedCount, log |-> batchLog,
      progress |-> llamaParseProgress ]

CommitBatch(b) ==
    /\ batchResults' = b.results
    /\ processedCount' = b.count
    /\ batchLog' = b.log
    /\ llamaParseProgress' = b.progress

\* onProgress(event): the callback of handleProcessDriveFiles calls
\* setLlamaParseProgress(event)
onProgress(b, event) ==
    [b EXCEPT !.log = Append(@, [kind |-> "progress", event |-> event]),
              !.progress = << event >>]

someError(batch) == \E k \in 1..Len(batch) : batch[k].status = "error"

\* updateProgress of processPdfBatch
batchUpdateProgress(b) ==
    onProgress(b, [ totalFiles     |-> Len(downloadedFiles),
                    processedFiles |-> b.count,
                    currentFile    |-> <<>>,
                    results        |-> b.results,
                    isComplete     |-> b.count = Len(downloadedFiles),
                    hasErrors      |-> someError(b.results) ])

\* the event at the top of the loop body for file k (from 1)
currentFileProgress(b, k) ==
    onProgress(b, [ totalFiles     |-> Len(downloadedFiles),
                    processedFiles |-> b.count,
                    currentFile    |-> << downloadedFiles[k].name >>,
                    results        |-> b.results,
                    isComplete     |-> FALSE,
                    hasErrors      |-> someError(b.results) ])

\* an awaited call of processPdfBatch has resolved (ok) or rejected
batchSettled(b, cap, k, ok) ==
    [b EXCEPT !.log = Append(@, [kind |-> "settle", cap |-> cap, file |-> k,
                                 ok |-> ok])]

\* the id LlamaParse gives the job of file k
JobId(k) == << "job", k >>

pendingResult(k) ==
    [ id |-> JobId(k), fileName |-> downloadedFiles[k].name,
      status |-> "processing", jsonData |-> "undefined", error |-> "none" ]

errorResult(k) ==
    [ id |-> << "error", k >>, fileName |-> downloadedFiles[k].name,
      status |-> "error", jsonData |-> "undefined",
      error |-> "LlamaParse upload failed" ]

\* what pollLlamaParseJob(uploadResult.id, file.name) returns
finalResult(k, parseResult) ==
    [ id |-> JobId(k), fileName |-> downloadedFiles[k].name,
      status |-> parseResult.status, jsonData |-> parseResult.jsonData,
      error |-> parseResult.error ]

\* results.findIndex(r => r.id === id), counted from 1; 0 for none
resultIndex(batch, id) ==
    IF \E n \in 1..Len(batch) : batch[n].id = id
    THEN CHOOSE n \in 1..Len(batch) :
            /\ batch[n].id = id
            /\ \A before \in 1..(n - 1) : batch[before].id # id
    ELSE 0

\* variant: the catch block swallows the failure of the file
catchOfFileSkips(b, k) == b

\* the catch block of the loop body for file k
catchOfFile(b, k) ==
    batchUpdateProgress([b EXCEPT !.results = Append(@, errorResult(k)),
                                  !.count = @ + 1])

\* the try of the loop body after the upload resolved, up to the poll
uploaded(b, k) ==
    batchUpdateProgress([b EXCEPT !.results = Append(@, pendingResult(k))])

\* the try of the loop body after the poll returned
polled(b, k, parseResult) ==
    LET n  == resultIndex(b.results, JobId(k))
        b1 == IF n # 0
              THEN [b EXCEPT !.results[n] = finalResult(k, parseResult)]
              ELSE b
    IN  batchUpdateProgress([b1 EXCEPT !.count = @ + 1])

\* parseResults.filter(r => r.status === 'completed' && r.jsonData)
successfulResults(parseResults) ==
    SelectSeq(parseResults,
              LAMBDA r : r.status = "completed" /\ Truthy(r.jsonData))

\* the catch of handleProcessDriveFiles
DriveFails ==
    /\ view' = "ERROR"
    /\ drivePc' = "done"

\* processPdfBatch returns and handleProcessDriveFiles runs to its end
BatchReturns(b) ==
    /\ CommitBatch(b)
    /\ batchPc' = "returned"
    /\ fileIndex' = fileIndex
    /\ drivePc' = "done"
    /\ view' = IF Len(successfulResults(b.results)) = 0
               THEN "ERROR" ELSE "LLAMAPARSE_REVIEW"

\* for (const file of files), from file k (from 1) on, up to the await of
\* the upload
ForFileFrom(b, k) ==
    IF k > Len(downloadedFiles) THEN BatchReturns(b)
    ELSE /\ CommitBatch(currentFileProgress(b, k))
         /\ batchPc' = "upload"
         /\ fileIndex' = k
         /\ drivePc' = "batch"
         /\ view' = view

\* processPdfBatch is called: the two checks on the files, the first
\* progress event, the first file
BatchStarts ==
    IF BatchRejected(downloadedFiles, LLAMAPARSE_BATCH_SIZE)
    THEN /\ batchPc' = "thrown"
         /\ DriveFails
         /\ UNCHANGED << llamaParseProgress, fileIndex, batchResults,
                         processedCount, batchLog >>
    ELSE ForFileFrom(batchUpdateProgress(Batch), 1)

\* the user has ticked some files of the Drive list, or none
InitDrive ==
    /\ LLAMAPARSE_API_KEY = <<"l", "l", "x", "-", "1">>
    /\ LLAMAPARSE_BATCH_SIZE = MaxBatchSize
    /\ driveFiles = <<>>
    /\ pc = "start"
    /\ i = 0
    /\ fileResults = <<>>
    /\ existingSheet = <<>>
    /\ allData = <<>>
    /\ successfulFiles = <<>>
    /\ failedFiles = <<>>
    /\ totalStats = [filesProcessed |-> 0, lineItemsFound |-> 0,
                     periodsFound |-> 0]
    /\ log = <<>>
    /\ PROCESSING_TIMEOUT = MaxTimeout
    /\ pollPc = "idle"
    /\ elapsed = 0
    /\ polls = <<>>
    /\ pollResult = NoResult
    /\ operationType = "create"
    /\ llamaParseResults = <<>>
    /\ existingSheetData = <<>>
    /\ processed = NotCalled
    /\ NotSaving
    /\ view = "DRIVE_FILE_SELECTION"
    /\ selectedDriveFiles \in
         {[k \in 1..n |-> DriveFile(k)] : n \in 0..MaxFiles}
    /\ llamaParseProgress = <<>>
    /\ drivePc = "idle"
    /\ batchPc = "idle"
    /\ fileIndex = 0
    /\ batchResults = <<>>
    /\ processedCount = 0
    /\ batchLog = <<>>
    /\ cancelled = FALSE

outsideDrive ==
    << config, existingSheet, pipeline, polling, interpreting, saving >>

\* handleProcessDriveFiles up to its first await; without a selection it
\* sets the error and returns
HandleProcessDriveFiles ==
    /\ drivePc = "idle"
    /\ view = "DRIVE_FILE_SELECTION"
    /\ IF Len(selectedDriveFiles) = 0
       THEN drivePc' = "refused" /\ view' = view
       ELSE drivePc' = "download" /\ view' = "PROCESSING"
    /\ llamaParseProgress' = <<>>
    /\ UNCHANGED << outsideDrive, selectedDriveFiles, batchPc, fileIndex,
                    batchResults, processedCount, batchLog, cancelled >>

\* the downloads settle: one rejected, or all resolved; the sheet of an
\* existing stock is read next, without one processPdfBatch is called
DownloadsSettle ==
    /\ drivePc = "download"
    /\ \/ /\ DriveFails
          /\ UNCHANGED << llamaParseProgress, batchPc, fileIndex,
                          batchResults, processedCount, batchLog >>
       \/ /\ drivePc' = "getSheetData"
          /\ UNCHANGED << view, llamaParseProgress, batchPc, fileIndex,
                          batchResults, processedCount, batchLog >>
       \/ BatchStarts
    /\ UNCHANGED << outsideDrive, selectedDriveFiles, cancelled >>

\* getSheetData settles
SheetReadSettles ==
    /\ drivePc = "getSheetData"
    /\ \/ /\ DriveFails
          /\ UNCHANGED << llamaParseProgress, batchPc, fileIndex,
                          batchResults, processedCount, batchLog >>
       \/ BatchStarts
    /\ UNCHANGED << outsideDrive, selectedDriveFiles, cancelled >>

\* uploadPdfToLlamaParse settles for the current file
BatchUploadSettles ==
    /\ batchPc = "upload"
    /\ \/ ForFileFrom(catchOfFile(batchSettled(Batch, "uploadPdfToLlamaParse",
                                                fileIndex, FALSE),
                                   fileIndex),
                       fileIndex + 1)
       \/ /\ CommitBatch(uploaded(batchSettled(Batch, "uploadPdfToLlamaParse",
                                                fileIndex, TRUE),
                                   fileIndex))
          /\ batchPc' = "poll"
          /\ UNCHANGED << view, drivePc, fileIndex >>
    /\ UNCHANGED << outsideDrive, selectedDriveFiles, cancelled >>

\* pollLlamaParseJob returns for the current file
BatchPollSettles ==
    /\ batchPc = "poll"
    /\ \E parseResult \in PollResults :
         ForFileFrom(polled(batchSettled(Batch, "pollLlamaParseJob", fileIndex,
                                         parseResult.status = "completed"),
                            fileIndex, parseResult),
                     fileIndex + 1)
    /\ UNCHANGED << outsideDrive, selectedDriveFiles, cancelled >>

\* onCancel of ProcessingProgress, rendered while the view is PROCESSING
\* and llamaParseProgress is set
Cancel ==
    /\ view = "PROCESSING"
    /\ llamaParseProgress # <<>>
    /\ view' = "DRIVE_FILE_SELECTION"
    /\ cancelled' = TRUE
    /\ UNCHANGED << outsideDrive, selectedDriveFiles, llamaParseProgress,
                    drivePc, batchPc, fileIndex, batchResults,
                    processedCount, batchLog >>

NextDrive ==
    \/ HandleProcessDriveFiles
    \/ DownloadsSettle
    \/ SheetReadSettles
    \/ BatchUploadSettles
    \/ BatchPollSettles
    \/ Cancel

SpecDrive == InitDrive /\ [][NextDrive]_vars

\* ------------------------------------------------------------------------
\* Reading the history
\* ------------------------------------------------------------------------
\* positions of the invocations of capability cap for file idx
CallsOf(cap, idx) ==
    {p \in 1..Len(log) :
        log[p].kind = "call" /\ log[p].cap = cap /\ log[p].file = idx}

\* positions where a capability call made for file idx rejected, or the
\* poll came back without usable content
FailuresOf(idx) ==
    {p \in 1..Len(log) :
        log[p].kind = "settle" /\ log[p].file = idx /\ ~log[p].ok}

FailuresOfCap(cap, idx) == {p \in FailuresOf(idx) : log[p].cap = cap}

\* the progress events delivered so far, in order
Events ==
    LET sel == SelectSeq(log, LAMBDA e : e.kind = "progress")
    IN  [j \in 1..Len(sel) |-> sel[j].event]

\* what a caller that kept the j-th delivered event reads from it now:
\* fileResults: [...fileResults] copies the array, not its elements, so
\* the event's list holds the fileResult objects the pipeline goes on
\* assigning to
Delivered(j) ==
    [Events[j] EXCEPT
       !.fileResults = [k \in 1..Len(@) |-> fileResults[k]]]

FileNames == [k \in 1..N |-> driveFiles[k].name]

IndexOfName(name) == CHOOSE k \in 1..N : driveFiles[k].name = name

\* the request passes the eager validation
ValidRequest == N >= 1 /\ N <= LLAMAPARSE_BATCH_SIZE

PersistFailed == FailuresOfCap("sheetsWriteFn", -1) # {}

\* ------------------------------------------------------------------------
\* Properties
\* ------------------------------------------------------------------------

\* C1: whatever fails for whichever file of a valid batch, nothing
\* propagates out of the pipeline (the run is never ended by a throw: it
\* is awaiting a capability or has returned), and when it has returned
\* downloadFn has been invoked once for every file, in input order.
C1_FailuresNeverAbortTheBatch ==
    ValidRequest =>
      /\ pc \in {"start", "getExistingSheet", "download", "upload", "poll",
                 "gemini", "sheetsWrite", "returned"}
      /\ pc = "returned" =>
           LET dl == SelectSeq(log, LAMBDA e :
                         e.kind = "call" /\ e.cap = "downloadFn")
           IN  /\ Len(dl) = N
               /\ \A k \in 1..N : dl[k].file = k - 1

C1_Witness ==
    /\ pc = "returned"
    /\ N = 3
    /\ FailuresOfCap("downloadFn", 0) # {}
    /\ FailuresOfCap("pollLlamaParseJob", 1) # {}
    /\ FailuresOfCap("geminiProcessFn", 2) # {}

\* C3: in the result of a valid run, successfulFiles is the input list
\* restricted to the files none of whose own steps failed, failedFiles is
\* the input list restricted to the others, both in input order.
C3_ResultPartitionsTheFiles ==
    (ValidRequest /\ pc = "returned") =>
      /\ successfulFiles =
           SelectSeq(FileNames,
                     LAMBDA nm : FailuresOf(IndexOfName(nm) - 1) = {})
      /\ failedFiles =
           SelectSeq(FileNames,
                     LAMBDA nm : FailuresOf(IndexOfName(nm) - 1) # {})

C3_Witness ==
    /\ pc = "returned"
    /\ N = 3
    /\ failedFiles = << FileNames[2] >>
    /\ successfulFiles = << FileNames[1], FileNames[3] >>
    /\ FailuresOfCap("downloadFn", 1) # {}

\* C4: sheetsWriteFn is invoked at most once, only once downloadFn has
\* been invoked for every file, with exactly the accumulated records, and
\* a finished run has invoked it iff there is at least one record.
C4_PersistOnceAtTheEnd ==
    LET writes == CallsOf("sheetsWriteFn", -1)
    IN  /\ Cardinality(writes) <= 1
        /\ \A p \in writes :
             /\ log[p].arg = allData
             /\ \A k \in 0..(N - 1) :
                  \E q \in CallsOf("downloadFn", k) : q < p
        /\ pc = "returned" => (writes # {} <=> allData # <<>>)

C4_Witness ==
    /\ pc = "returned"
    /\ N >= 2
    /\ failedFiles # <<>>
    /\ Len(allData) >= 2
    /\ CallsOf("sheetsWriteFn", -1) # {}

\* C5: the step in which sheetsWriteFn rejects ends in the normal return
\* and leaves successfulFiles, failedFiles and every stage status of every
\* file as they were when the call was made.
C5_PersistFailureKeepsFileOutcomes ==
    [][ (pc = "sheetsWrite" /\ PersistFailed') =>
          /\ pc' = "returned"
          /\ successfulFiles' = successfulFiles
          /\ failedFiles' = failedFiles
          /\ \A k \in 1..N : \A j \in 1..Len(Stages) :
               fileResults'[k][Stages[j]] = fileResults[k][Stages[j]] ]_vars

C5_Witness ==
    /\ pc = "returned"
    /\ PersistFailed
    /\ successfulFiles # <<>>
    /\ failedFiles # <<>>

\* C7: an empty or oversized file list makes the call throw at once: no
\* capability has been invoked and no progress event delivered.
C7_MalformedBatchThrowsFirst ==
    (N = 0 \/ N > LLAMAPARSE_BATCH_SIZE) =>
      /\ pc \in {"start", "thrown"}
      /\ log = <<>>
      /\ fileResults = <<>>

C7_Witness ==
    /\ pc = "thrown"
    /\ N = LLAMAPARSE_BATCH_SIZE + 1
    /\ log = <<>>

\* the stage at which file idx failed, as an index into Stages (0: none)
FailedStage(idx) ==
    IF FailuresOfCap("downloadFn", idx) # {} THEN 1
    ELSE IF FailuresOfCap("uploadPdfToLlamaParse", idx) # {}
            \/ FailuresOfCap("pollLlamaParseJob", idx) # {} THEN 2
    ELSE IF FailuresOfCap("geminiProcessFn", idx) # {} THEN 3
    ELSE 0

\* C2 (as claimed): a file that failed at some stage has that stage and
\* every later stage 'error', and no capability is invoked for it after
\* the failure.
C2_FailedStageAndLaterAreError ==
    \A k \in 1..Len(fileResults) :
        FailedStage(k - 1) # 0 =>
          /\ \A j \in FailedStage(k - 1)..Len(Stages) :
               fileResults[k][Stages[j]] = "error"
          /\ \A p \in FailuresOf(k - 1) : \A q \in (p + 1)..Len(log) :
               ~(log[q].kind = "call" /\ log[q].file = k - 1)

\* what the caller of a run gets: the BatchResult and the progress events
Observable(s) ==
    [ result |-> [ successfulFiles |-> s.successfulFiles,
                   failedFiles |-> s.failedFiles,
                   allData |-> s.allData,
                   totalStats |-> s.totalStats ],
      events |-> SelectSeq(s.log, LAMBDA e : e.kind = "progress") ]

\* C6 (as claimed): when sheetsWriteFn is awaited, the run in which it
\* rejects and the run in which it resolves give the caller a different
\* BatchResult or a different progress event.
C6_PersistFailureIsReported ==
    pc = "sheetsWrite" =>
        Observable(SheetsWriteOutcome(Cur, FALSE))
          # Observable(SheetsWriteOutcome(Cur, TRUE))

\* C8 (as claimed): with a missing, placeholder or wrongly prefixed key no
\* downloadFn call is made and no file leaves 'pending' in any stage.
C8_BadKeyAbortsBeforeAnyFile ==
    (LLAMAPARSE_API_KEY = <<>> \/ LLAMAPARSE_API_KEY = Placeholder
       \/ Len(LLAMAPARSE_API_KEY) < 4
       \/ SubSeq(LLAMAPARSE_API_KEY, 1, 4) # <<"l", "l", "x", "-">>) =>
      /\ \A k \in 0..(N - 1) : CallsOf("downloadFn", k) = {}
      /\ \A k \in 1..Len(fileResults) : \A j \in 1..Len(Stages) :
           fileResults[k][Stages[j]] = "pending"

\* C9: overallProgress never decreases from one progress event to the
\* next.
C9_OverallProgressNeverDecreases ==
    \A j \in 1..(Len(Events) - 1) :
        Events[j].overallProgress <= Events[j + 1].overallProgress

C9_Witness ==
    /\ pc = "returned"
    /\ N = 3
    /\ FailuresOfCap("pollLlamaParseJob", 0) # {}
    /\ FailuresOfCap("downloadFn", 1) # {}
    /\ FailuresOfCap("geminiProcessFn", 2) = {}
    /\ FailuresOf(2) = {}
    /\ PersistFailed

\* num / den rounded to the nearest integer, halves up, in exact arithmetic
ExactRound(num, den) == (2 * num + den) \div (2 * den)

\* the stage weights of the specification
ClaimedWeight(stage) ==
    CASE stage = "download"   -> 0
      [] stage = "llamaparse" -> 1
      [] stage = "gemini"     -> 2
      [] stage = "sheets"     -> 3
      [] stage = "completed"  -> 4

\* fileIndex * 4 + stageWeight of an event
ClaimedStages(e) == e.currentFileIndex * 4 + ClaimedWeight(e.currentStage)

\* 100 * stages / (totalFiles * 4) lies exactly half-way between two integers
ExactTie(e) ==
    (200 * ClaimedStages(e)) % (8 * e.totalFiles) = 4 * e.totalFiles

\* C10 (as claimed): every event has
\* overallProgress = round(100 * (fileIndex*4 + w) / (totalFiles*4)).
C10_OverallProgressIsTheRoundedRatio ==
    \A j \in 1..Len(Events) :
        Events[j].overallProgress =
            ExactRound(100 * ClaimedStages(Events[j]),
                       4 * Events[j].totalFiles)

\* C10 (amended): every event has overallProgress = min(100, r), where r
\* is that rounded ratio, except that when the ratio is exactly half-way
\* between two integers r may be the lower of the two (the quotient is
\* rounded to a double before it is multiplied by 100).
C10_OverallProgressIsTheClampedRatio ==
    \A j \in 1..Len(Events) :
        LET e == Events[j]
            r == ExactRound(100 * ClaimedStages(e), 4 * e.totalFiles)
        IN  \/ e.overallProgress = Min(100, r)
            \/ ExactTie(e) /\ e.overallProgress = Min(100, r - 1)

C10_Witness ==
    \E j \in 1..Len(Events) :
        LET e == Events[j]
            r == ExactRound(100 * ClaimedStages(e), 4 * e.totalFiles)
        IN  /\ ExactTie(e)
            /\ r <= 100
            /\ e.overallProgress = r - 1

\* C11: progress events come in file order: currentFileIndex never
\* decreases from one event to the next, and once a later file has had its
\* first status change no status change and no progress event of an
\* earlier file follows.
C11_ProgressFollowsFileOrder ==
    /\ \A j \in 1..(Len(Events) - 1) :
         Events[j].currentFileIndex <= Events[j + 1].currentFileIndex
    /\ \A p \in 1..Len(log) : \A q \in (p + 1)..Len(log) :
         log[p].kind = "status" =>
           /\ log[q].kind = "status" => log[q].file >= log[p].file
           /\ log[q].kind = "progress" =>
                log[q].event.currentFileIndex >= log[p].file

C11_Witness ==
    /\ pc = "returned"
    /\ N = 3
    /\ FailuresOfCap("uploadPdfToLlamaParse", 0) # {}
    /\ FailuresOf(1) = {}
    /\ FailuresOfCap("geminiProcessFn", 2) # {}
    /\ Len(Events) >= 10

\* the (file, stage) pairs whose status is 'processing'
Processing ==
    {ks \in (1..Len(fileResults)) \X (1..Len(Stages)) :
        fileResults[ks[1]][Stages[ks[2]]] = "processing"}

\* the capability invocations that have not settled
InFlight ==
    {p \in 1..Len(log) :
        /\ log[p].kind = "call"
        /\ \A q \in (p + 1)..Len(log) : log[q].kind # "settle"}

\* the files that have reached their final state
Finished ==
    {successfulFiles[k] : k \in 1..Len(successfulFiles)}
      \cup {failedFiles[k] : k \in 1..Len(failedFiles)}

\* C12: at most one stage of one file is 'processing', at most one
\* capability call is unsettled, the stage in progress belongs to the
\* file of the loop index, and when downloadFn has been invoked for a file
\* every earlier file is in successfulFiles or failedFiles with no stage
\* left 'processing'.
C12_OneFileOneStageAtATime ==
    /\ Cardinality(Processing) <= 1
    /\ Cardinality(InFlight) <= 1
    /\ \A ks \in Processing : ks[1] = i + 1
    /\ \A k \in 1..N : CallsOf("downloadFn", k - 1) # {} =>
         \A e \in 1..(k - 1) :
           /\ FileNames[e] \in Finished
           /\ \A j \in 1..Len(Stages) :
                fileResults[e][Stages[j]] # "processing"

C12_Witness ==
    /\ pc = "gemini"
    /\ i = 2
    /\ FailuresOfCap("downloadFn", 0) # {}
    /\ FailuresOf(1) = {}
    /\ Processing = {<<3, 3>>}
    /\ Cardinality(InFlight) = 1

\* C13 (as claimed): between two successive status changes of a file the
\* progress callback is invoked, with an event that shows the status the
\* first of the two changes set.
C13_CallbackAfterEveryTransition ==
    \A p \in 1..Len(log) : \A q \in (p + 1)..Len(log) :
        (log[p].kind = "status" /\ log[q].kind = "status"
           /\ log[q].file = log[p].file) =>
          \E r \in (p + 1)..(q - 1) :
            /\ log[r].kind = "progress"
            /\ log[r].event.fileResults[log[p].file + 1][log[p].stage]
                 = log[p].status

\* C14: whenever the interpretation of a file is awaited, its resolving
\* with zero records leaves the file with all four stages 'completed',
\* listed in successfulFiles and not in failedFiles, and the accumulated
\* records as they were.
C14_EmptyInterpretationIsSuccess ==
    pc = "gemini" =>
      \A geminiResult \in GeminiReturns(i) :
        geminiResult.data = <<>> =>
          LET s == FileSucceeds(Settle(Cur, "geminiProcessFn", i, TRUE), i,
                                geminiResult)
          IN  /\ \A j \in 1..Len(Stages) :
                   s.fileResults[i + 1][Stages[j]] = "completed"
              /\ s.successfulFiles
                   = Append(successfulFiles, driveFiles[i + 1].name)
              /\ s.failedFiles = failedFiles
              /\ s.allData = allData

\* a file went through all four stages and the accumulator is still empty
C14_Witness ==
    /\ pc = "returned"
    /\ N = 2
    /\ allData = <<>>
    /\ successfulFiles = << FileNames[2] >>
    /\ totalStats.filesProcessed = 1
    /\ \A j \in 1..Len(Stages) : fileResults[2][Stages[j]] = "completed"

\* C15: a run that got past validation has invoked getExistingSheetFn
\* exactly once, before any downloadFn call; when that call rejected the
\* snapshot is empty and the run goes on; and every geminiProcessFn call
\* was given the one snapshot of the run.
C15_SnapshotFetchedOnceBestEffort ==
    LET fetches == CallsOf("getExistingSheetFn", -1)
    IN  /\ Cardinality(fetches) <= 1
        /\ pc \notin {"start", "thrown"} => Cardinality(fetches) = 1
        /\ \A p \in 1..Len(log) :
             (log[p].kind = "call" /\ log[p].cap = "downloadFn") =>
               \E q \in fetches : q < p
        /\ FailuresOfCap("getExistingSheetFn", -1) # {} =>
             existingSheet = <<>> /\ pc # "thrown"
        /\ \A p \in 1..Len(log) :
             (log[p].kind = "call" /\ log[p].cap = "geminiProcessFn") =>
               log[p].arg[2] = existingSheet

C15_Witness ==
    /\ pc = "returned"
    /\ FailuresOfCap("getExistingSheetFn", -1) # {}
    /\ Cardinality(CallsOf("geminiProcessFn", 0)) = 1
    /\ Cardinality(CallsOf("geminiProcessFn", 1)) = 1
    /\ successfulFiles # <<>>

\* the status requests that were answered with a job status
Observed == {k \in 1..Len(polls) : polls[k].outcome \in {"SUCCESS", "ERROR", "PENDING"}}

\* every status request so far was answered with a non-terminal status
OnlyPending == \A k \in 1..Len(polls) : polls[k].outcome = "PENDING"

PollOver == pollPc \in {"returned", "done"}

PollFailures == {"rejected", "notOk", "badJson"}

\* the file pollLlamaParseJob was called for
Polled ==
    LET p == CHOOSE p \in 1..Len(log) :
                 log[p].kind = "call" /\ log[p].cap = "pollLlamaParseJob"
    IN  log[p].file

\* the message of the error each failure raises
FailureMessage(outcome) ==
    CASE outcome = "rejected" -> "Failed to fetch"
      [] outcome = "notOk"    -> "Failed to check job status"
      [] outcome = "badJson"  -> "Unexpected token"

\* C17: pollLlamaParseJob never ends by throwing; a status request that
\* is rejected, answered with a non-2xx status or with an unparsable body
\* is the last one and the function returns status 'error' with that
\* error's message; and the orchestrator, given an error result, marks the
\* parse stage of that file 'error', lists the file in failedFiles and goes
\* on to the next file (or to the end of the run).
C17_PollFailureIsAnErrorResult ==
    /\ pollPc # "thrown"
    /\ \A k \in 1..Len(polls) :
         polls[k].outcome \in PollFailures =>
           /\ k = Len(polls)
           /\ PollOver
           /\ pollResult = Failed(FailureMessage(polls[k].outcome))
    /\ (pollPc = "done" /\ pollResult.status = "error") =>
         /\ fileResults[Polled + 1].llamaParseStatus = "error"
         /\ failedFiles[Len(failedFiles)] = FileNames[Polled + 1]
         /\ successfulFiles = <<>>
         /\ IF Polled + 1 < N
            THEN /\ pc = "download"
                 /\ i = Polled + 1
                 /\ CallsOf("downloadFn", Polled + 1) # {}
            ELSE pc = "returned"

C17_Witness ==
    /\ pollPc = "done"
    /\ Len(polls) = 2
    /\ polls[2].outcome = "badJson"
    /\ N = 3
    /\ Polled = 1
    /\ pc = "download"

\* C18 (as claimed): a returned result with status 'completed' has
\* jsonData present and not null, one with status 'error' has no jsonData.
C18_CompletedCarriesContent ==
    PollOver =>
      /\ pollResult.status = "completed" =>
           pollResult.jsonData \notin {"null", "undefined"}
      /\ pollResult.status = "error" => pollResult.jsonData = "undefined"

\* C19: a CREATE-mode call with more than one document returns, and its
\* records are those of the call with the first document alone; only the
\* first document is handed to the interpretation.
C19_CreateModeUsesTheFirstDocumentOnly ==
    (/\ processed.status # "notCalled"
     /\ operationType = "create"
     /\ Len(llamaParseResults) > 1) =>
      LET alone == processLlamaParseResults(<< llamaParseResults[1] >>,
                                            existingSheetData, "create")
      IN  /\ processed.status = "returned"
          /\ alone.status = "returned"
          /\ processed.data = alone.data
          /\ processed.sent = << llamaParseResults[1] >>

C19_Witness ==
    /\ processed.status = "returned"
    /\ operationType = "create"
    /\ Len(llamaParseResults) = 3
    /\ llamaParseResults[1].fileName = "A"
    /\ llamaParseResults[2].fileName = "C"
    /\ llamaParseResults[3].fileName = "F"
    /\ Len(processed.data) = 1

\* the rows of all documents, as (document, row) positions
RowPositions ==
    UNION { {<<d, r>> :
               r \in 1..Len(processSingleLlamaParseResult(
                                llamaParseResults[d]))} :
            d \in 1..Len(llamaParseResults) }

RowAt(p) == processSingleLlamaParseResult(llamaParseResults[p[1]])[p[2]]

\* position p comes before position q in document order
Precedes(p, q) == p[1] < q[1] \/ (p[1] = q[1] /\ p[2] < q[2])

\* C20: an UPDATE-mode call returns one record per line-item name that
\* occurs in the documents' rows and no other: its keys are the union of
\* the keys of the rows of that name, and each key has the value of the
\* last row of that name, in document order, that has the key.
C20_UpdateModeMergesByLineItem ==
    (processed.status = "returned" /\ operationType = "update") =>
      LET data == processed.data
      IN  /\ \A a, b \in 1..Len(data) :
               lineItemOf(data[a]) = lineItemOf(data[b]) => a = b
          /\ \A a \in 1..Len(data) :
               \E p \in RowPositions :
                 lineItemOf(RowAt(p)) = lineItemOf(data[a])
          /\ \A p \in RowPositions :
               \E a \in 1..Len(data) :
                 /\ lineItemOf(data[a]) = lineItemOf(RowAt(p))
                 /\ DOMAIN RowAt(p) \subseteq DOMAIN data[a]
                 /\ \A key \in DOMAIN data[a] :
                      \E q \in RowPositions :
                        /\ lineItemOf(RowAt(q)) = lineItemOf(data[a])
                        /\ key \in DOMAIN RowAt(q)
                        /\ data[a][key] = RowAt(q)[key]
                        /\ \A later \in RowPositions :
                             (/\ Precedes(q, later)
                              /\ lineItemOf(RowAt(later))
                                   = lineItemOf(data[a]))
                               => key \notin DOMAIN RowAt(later)

\* Revenue/2023 from document A and Revenue/2024 from document B
C20_Witness ==
    /\ processed.status = "returned"
    /\ operationType = "update"
    /\ Len(llamaParseResults) = 2
    /\ llamaParseResults[1].fileName = "A"
    /\ llamaParseResults[2].fileName = "B"
    /\ Len(processed.data) = 1
    /\ processed.data[1]["lineItem"] = "Revenue"
    /\ processed.data[1]["2023"] = "100"
    /\ processed.data[1]["2024"] = "120"

\* C21 (as claimed): every element of the data a call returns is a record
\* that has the key lineItem with a defined value, whatever the shape of
\* the answer it was made from.
C21_EveryRecordHasALineItem ==
    processed.status = "returned" =>
      \A k \in 1..Len(processed.data) :
        /\ "lineItem" \in DOMAIN processed.data[k]
        /\ processed.data[k]["lineItem"] # "undefined"

\* the documents a call hands to the interpretation
Interpreted ==
    IF Len(llamaParseResults) = 0 THEN {}
    ELSE IF operationType = "create" THEN {llamaParseResults[1]}
    ELSE {llamaParseResults[d] : d \in 1..Len(llamaParseResults)}

\* the answer has no text, text that does not parse, or another shape
\* than a table or an array
Unusable(document) ==
    document.response.kind \in {"none", "malformed", "object"}

\* C22 (as claimed): a call in which the answer for some interpreted
\* document has no text, does not parse or has the wrong shape throws; it
\* does not return a list.
C22_UnusableAnswerThrows ==
    (processed.status # "notCalled" /\ \E d \in Interpreted : Unusable(d))
      => processed.status = "threw"

\* C23 (as claimed): when a valid run has returned, filesProcessed is the
\* number of successful files, lineItemsFound the number of distinct
\* line items and periodsFound the number of distinct periods of the
\* records accumulated over the batch.
C23_StatsCountDistinctAcrossTheBatch ==
    (ValidRequest /\ pc = "returned") =>
      /\ totalStats.filesProcessed = Len(successfulFiles)
      /\ totalStats.lineItemsFound =
           Cardinality({allData[k].lineItem : k \in 1..Len(allData)})
      /\ totalStats.periodsFound =
           Cardinality({allData[k].period : k \in 1..Len(allData)})

\* C24: every progress event carries an overallProgress that is an
\* integer from 0 to 100, an event that reports completion carries 100,
\* and the last event of a valid run that has returned is such an event.
C24_ProgressIsAPercentage ==
    /\ \A j \in 1..Len(Events) :
         /\ Events[j].overallProgress \in 0..100
         /\ Events[j].isComplete => Events[j].overallProgress = 100
    /\ (ValidRequest /\ pc = "returned") =>
         /\ Len(Events) >= 1
         /\ Events[Len(Events)].isComplete
         /\ Events[Len(Events)].overallProgress = 100

C24_Witness ==
    /\ pc = "returned"
    /\ N = 3
    /\ Events[Len(Events)].overallProgress = 100
    /\ \E j \in 1..Len(Events) : Events[j].overallProgress = 58
    /\ \E j \in 1..Len(Events) : Events[j].overallProgress = 0

\* the statuses assigned so far to stage j of file k (counted from 1), in
\* order
StatusHistory(k, j) ==
    LET sel == SelectSeq(log, LAMBDA e :
                  e.kind = "status" /\ e.file = k - 1 /\ e.stage = Stages[j])
    IN  [n \in 1..Len(sel) |-> sel[n].status]

\* C25: a stage of a file is 'pending' until a status is assigned to it;
\* the statuses assigned to it are 'processing' and then at most one of
\* 'completed' and 'error', after which it never changes; and a stage is
\* set to, or is, 'processing' or 'completed' only when every earlier stage
\* of the file has been set to, and is, 'completed'.
C25_StagesAdvanceInOrder ==
    /\ \A k \in 1..Len(fileResults) : \A j \in 1..Len(Stages) :
         LET history == StatusHistory(k, j)
             status  == fileResults[k][Stages[j]]
         IN  /\ Len(history) <= 2
             /\ Len(history) = 0 => status = "pending"
             /\ Len(history) >= 1 =>
                  /\ history[1] = "processing"
                  /\ status = history[Len(history)]
             /\ Len(history) = 2 => history[2] \in {"completed", "error"}
             /\ status \in {"processing", "completed"} =>
                  \A e \in 1..(j - 1) :
                    fileResults[k][Stages[e]] = "completed"
    /\ \A p \in 1..Len(log) :
         (log[p].kind = "status"
            /\ log[p].status \in {"processing", "completed"}) =>
           \A e \in 1..Len(Stages) :
             (\E j \in (e + 1)..Len(Stages) : Stages[j] = log[p].stage) =>
               \E q \in 1..(p - 1) :
                 /\ log[q].kind = "status"
                 /\ log[q].file = log[p].file
                 /\ log[q].stage = Stages[e]
                 /\ log[q].status = "completed"

\* the first file failed at its second stage, the second at its third,
\* the third went through
C25_Witness ==
    /\ pc = "returned"
    /\ N = 3
    /\ fileResults[1].downloadStatus = "completed"
    /\ fileResults[1].llamaParseStatus = "error"
    /\ fileResults[1].geminiStatus = "pending"
    /\ fileResults[2].llamaParseStatus = "completed"
    /\ fileResults[2].geminiStatus = "error"
    /\ fileResults[2].sheetsStatus = "pending"
    /\ fileResults[3].sheetsStatus = "completed"
    /\ StatusHistory(3, 4) = << "processing", "completed" >>

\* the run after the awaited interpretation of file i rejects, or
\* resolves with geminiResult
AfterInterpretation(rejects, geminiResult) ==
    IF rejects
    THEN FileFails(Settle(Cur, "geminiProcessFn", i, FALSE), i,
                   << "Gemini failed" >>)
    ELSE LoopFrom(FileSucceeds(Settle(Cur, "geminiProcessFn", i, TRUE), i,
                               geminiResult),
                  i + 1)

\* C26 (as claimed): whenever the interpretation of a file is awaited,
\* its rejecting, and likewise its resolving with zero records, records
\* an error for the file, leaves its interpret and persist stages 'error',
\* appends the file to failedFiles, and the run goes on.
C26_FailedOrEmptyInterpretationFailsTheFile ==
    pc = "gemini" =>
      \A rejects \in BOOLEAN : \A geminiResult \in GeminiReturns(i) :
        (rejects \/ geminiResult.data = <<>>) =>
          LET s == AfterInterpretation(rejects, geminiResult)
          IN  /\ s.fileResults[i + 1].error # <<>>
              /\ s.fileResults[i + 1].geminiStatus = "error"
              /\ s.fileResults[i + 1].sheetsStatus = "error"
              /\ s.failedFiles = Append(failedFiles, driveFiles[i + 1].name)
              /\ s.pc \in {"download", "sheetsWrite", "returned"}

\* the fields of a status body that can carry the content, in the order
\* of the claim
ContentFields ==
    << "result", "pages", "content", "output", "data", "parsed_text",
       "json", "document" >>

\* field n of the body qualifies: result as an object with more than one
\* key, pages as an array, the others when present
Qualifies(body, n) ==
    CASE n = 1 -> body.result = "object"
      [] n = 2 -> body.pages = "array"
      [] OTHER -> body[ContentFields[n]] # "absent"

Returned == pollPc \in {"returned", "done"}

\* C27: for a status body with status SUCCESS, when some content field
\* qualifies the markdown endpoint is not queried and the function returns
\* 'completed' with the first qualifying field in the order result, pages,
\* content, output, data, parsed_text, json, document; when none
\* qualifies the markdown endpoint is queried, and a body it answers with
\* ok is the content returned.  It is queried in no other case.
C27_ContentFromTheFirstQualifyingField ==
    \A p \in 1..Len(polls) :
      LET body  == polls[p].body
          found == {n \in 1..Len(ContentFields) : Qualifies(body, n)}
      IN  IF polls[p].outcome = "SUCCESS"
          THEN /\ p = Len(polls)
               /\ found # {} =>
                    /\ polls[p].markdown = "notAsked"
                    /\ Returned
                    /\ \E n \in found :
                         /\ \A m \in found : n <= m
                         /\ pollResult = Completed(body[ContentFields[n]])
               /\ found = {} =>
                    /\ polls[p].markdown # "notAsked"
                    /\ polls[p].markdown \in MarkdownValues =>
                         /\ Returned
                         /\ pollResult = Completed(polls[p].markdown)
          ELSE polls[p].markdown = "notAsked"

\* the second status request was answered with a body that has pages,
\* content and output: the pages were returned
C27_Witness ==
    /\ Returned
    /\ Len(polls) = 2
    /\ polls[2].outcome = "SUCCESS"
    /\ polls[2].body.result = "absent"
    /\ polls[2].body.pages = "array"
    /\ polls[2].body.content = "content"
    /\ polls[2].body.output = "output"
    /\ polls[2].markdown = "notAsked"
    /\ pollResult = Completed("array")

\* the position of a period label in ascending order
Rank(label) == CHOOSE n \in 1..Len(Labels) : Labels[n] = label

\* the column letters of the sheet, and the index (from 0) of a column
Alphabet ==
    << "A", "B", "C", "D", "E", "F", "G", "H", "I", "J", "K", "L", "M",
       "N", "O", "P", "Q", "R", "S", "T", "U", "V", "W", "X", "Y", "Z" >>

ColumnOf(letter) == CHOOSE n \in 0..25 : Alphabet[n + 1] = letter

\* a range covers one row, and as many columns as there are values
WellFormed(update) ==
    /\ Len(update.values) = 1
    /\ update.range.startCol \in {Alphabet[n] : n \in 1..26}
    /\ update.range.endCol \in {Alphabet[n] : n \in 1..26}
    /\ update.range.startRow = update.range.endRow
    /\ ColumnOf(update.range.endCol)
         = ColumnOf(update.range.startCol) + Len(update.values[1]) - 1

\* the period keys of the records to be saved
RecordPeriods ==
    UNION { DOMAIN extractedData[k] \ {"lineItem"} :
            k \in 1..Len(extractedData) }

\* C28: in CREATE mode (a sheet of at most one row) the first write is
\* row 1 from column A, 'lineItem' followed by the period keys of all
\* records, each once, in ascending order; the second and last write has
\* one row per record, in record order from row 2, holding the record's
\* line item and under each header period the record's value, or '' when
\* it has none.  Header and rows depend on the records alone.
C28_CreateModeWritesHeaderAndRows ==
    (Len(currentSheet) <= 1 /\ Len(sheetCalls) >= 1) =>
      LET header == sheetCalls[1][1].values[1]
      IN  /\ Len(sheetCalls[1]) = 1
          /\ WellFormed(sheetCalls[1][1])
          /\ sheetCalls[1][1].range.startCol = "A"
          /\ sheetCalls[1][1].range.startRow = 1
          /\ header[1] = "lineItem"
          /\ {header[n] : n \in 2..Len(header)} = RecordPeriods
          /\ \A a, b \in 2..Len(header) :
               a < b => Rank(header[a]) < Rank(header[b])
          /\ Len(sheetCalls) <= 2
          /\ savePc = "returned" => Len(sheetCalls) = 2
          /\ Len(sheetCalls) = 2 =>
               /\ Len(sheetCalls[2]) = Len(extractedData)
               /\ \A k \in 1..Len(extractedData) :
                    LET row == sheetCalls[2][k].values[1]
                    IN  /\ WellFormed(sheetCalls[2][k])
                        /\ sheetCalls[2][k].range.startCol = "A"
                        /\ sheetCalls[2][k].range.startRow = k + 1
                        /\ Len(row) = Len(header)
                        /\ row[1] = extractedData[k]["lineItem"]
                        /\ \A n \in 2..Len(header) :
                             row[n] =
                               IF header[n] \in DOMAIN extractedData[k]
                               THEN extractedData[k][header[n]]
                               ELSE ""

\* Revenue (2023, 2024), Margin (2022) and Costs (2025) into a sheet that
\* has a header only
C28_Witness ==
    /\ savePc = "returned"
    /\ Len(currentSheet) = 1
    /\ Len(sheetCalls) = 2
    /\ sheetCalls[1][1].values[1]
         = << "lineItem", "2022", "2023", "2024", "2025" >>
    /\ Len(sheetCalls[2]) = 3
    /\ sheetCalls[2][1].values[1] = << "Revenue", "", "100", "120", "" >>
    /\ sheetCalls[2][2].values[1] = << "Margin", "7", "", "", "" >>
    /\ sheetCalls[2][3].values[1] = << "Costs", "", "", "", "70" >>

\* the cells (column from 0, row from 1, value) a call writes
WrittenCells(call) ==
    UNION { { << ColumnOf(call[u].range.startCol) + n - 1,
                 call[u].range.startRow,
                 call[u].values[1][n] >> :
              n \in 1..Len(call[u].values[1]) } :
            u \in 1..Len(call) }

AllWritten == UNION { WrittenCells(sheetCalls[c]) : c \in 1..Len(sheetCalls) }

\* the period keys of the records that the header of the sheet lacks
NewPeriods ==
    RecordPeriods \ {currentSheet[1][n] : n \in 2..Len(currentSheet[1])}

\* the column a new period belongs in: the new periods follow the header
\* in ascending order
ColumnOfPeriod(period) ==
    Len(currentSheet[1])
      + Cardinality({other \in NewPeriods : Rank(other) < Rank(period)})

C30_MatchingValuesAreWritten ==
    (Len(currentSheet) > 1 /\ savePc = "returned") =>
      \A r \in 2..Len(currentSheet) :
        LET valued ==
              {kp \in (1..Len(extractedData)) \X NewPeriods :
                  /\ extractedData[kp[1]]["lineItem"] = currentSheet[r][1]
                  /\ kp[2] \in DOMAIN extractedData[kp[1]]
                  /\ extractedData[kp[1]][kp[2]] # ""}
        IN  /\ \A kp \in valued :
                 << ColumnOfPeriod(kp[2]), r,
                    extractedData[kp[1]][kp[2]] >> \in AllWritten
            /\ valued = {} => \A cell \in AllWritten : cell[2] # r

\* the records whose line item is the first cell of no existing data row
Unmatched ==
    {k \in 1..Len(extractedData) :
        \A r \in 2..Len(currentSheet) :
          extractedData[k]["lineItem"] # currentSheet[r][1]}

\* C31: in UPDATE mode no cell is written below the last existing row,
\* and a cell written in a data row belongs to a row whose first cell is
\* the line item of some record and holds that record's value or '': the
\* records that match no row cause no write in any data row.
C31_UnmatchedRecordsAreIgnored ==
    Len(currentSheet) > 1 =>
      \A cell \in AllWritten :
        /\ cell[2] \in 1..Len(currentSheet)
        /\ cell[2] >= 2 =>
             \E k \in (1..Len(extractedData)) \ Unmatched :
               /\ extractedData[k]["lineItem"] = currentSheet[cell[2]][1]
               /\ \E period \in NewPeriods :
                    /\ cell[1] = ColumnOfPeriod(period)
                    /\ cell[3] = valueOr(extractedData[k], period)

\* Margin matches no row of the sheet: its period 2022 gets a header and
\* no value
C31_Witness ==
    /\ savePc = "returned"
    /\ Len(currentSheet) = 3
    /\ Len(extractedData) = 2
    /\ extractedData[1]["lineItem"] = "Margin"
    /\ extractedData[2]["lineItem"] = "Revenue"
    /\ Unmatched = {1}
    /\ << 2, 1, "2022" >> \in AllWritten
    /\ << 2, 2, "" >> \in AllWritten
    /\ << 3, 2, "120" >> \in AllWritten

\* the new periods in ascending order
NewPeriodsInOrder ==
    [n \in 1..Cardinality(NewPeriods) |->
        CHOOSE period \in NewPeriods :
          ColumnOfPeriod(period) = Len(currentSheet[1]) + n - 1]

FileOf(record) == record.period - 2020

\* C33: the accumulated records change only in the step in which the
\* interpretation of the current file resolves, by the records it resolved
\* with being appended, the file becoming a successful one; so the
\* records stand in input-file order, each from a successful file and
\* none from a failed one; and sheetsWriteFn is handed this collection.
C33_AllDataIsTheConcatenation ==
    /\ [][ /\ allData' # allData =>
               /\ pc = "gemini"
               /\ \E geminiResult \in GeminiReturns(i) :
                    allData' = allData \o geminiResult.data
               /\ successfulFiles'
                    = Append(successfulFiles, driveFiles[i + 1].name)
           /\ failedFiles' # failedFiles => allData' = allData ]_vars
    /\ [](/\ \A a, b \in 1..Len(allData) :
               a < b => FileOf(allData[a]) <= FileOf(allData[b])
          /\ \A a \in 1..Len(allData) :
               /\ \E k \in 1..Len(successfulFiles) :
                    successfulFiles[k] = driveFiles[FileOf(allData[a]) + 1].name
               /\ \A k \in 1..Len(failedFiles) :
                    failedFiles[k] # driveFiles[FileOf(allData[a]) + 1].name
          /\ \A p \in CallsOf("sheetsWriteFn", -1) : log[p].arg = allData)

\* the second of three files failed, the first gave one record and the
\* third two
C33_Witness ==
    /\ pc = "returned"
    /\ N = 3
    /\ failedFiles = << FileNames[2] >>
    /\ allData = << Record("Revenue", 0), Record("Revenue", 2),
                    Record("Costs", 2) >>
    /\ \E p \in CallsOf("sheetsWriteFn", -1) : log[p].arg = allData

\* the progress events processPdfBatch has delivered, in order
BatchEvents ==
    LET sel == SelectSeq(batchLog, LAMBDA e : e.kind = "progress")
    IN  [n \in 1..Len(sel) |-> sel[n].event]

\* the upload of file k rejected, or its poll came back without
\* 'completed'
BatchFailures(k) ==
    {p \in 1..Len(batchLog) :
        /\ batchLog[p].kind = "settle"
        /\ batchLog[p].file = k
        /\ ~batchLog[p].ok}

\* C34: processPdfBatch, given between one and LLAMAPARSE_BATCH_SIZE
\* files, does not throw; when it has returned there is one result per
\* file, in input order, 'completed' or 'error', 'error' for a file whose
\* upload or poll failed, and the upload of every file was attempted;
\* processedFiles never decreases from one progress event to the next,
\* and an event with isComplete has processedFiles = totalFiles.
C34_OneTerminalResultPerFile ==
    /\ (Len(downloadedFiles) >= 1
          /\ Len(downloadedFiles) <= LLAMAPARSE_BATCH_SIZE)
         => batchPc # "thrown"
    /\ batchPc = "returned" =>
         /\ Len(batchResults) = Len(downloadedFiles)
         /\ \A k \in 1..Len(downloadedFiles) :
              /\ batchResults[k].fileName = downloadedFiles[k].name
              /\ batchResults[k].status \in {"completed", "error"}
              /\ BatchFailures(k) # {} => batchResults[k].status = "error"
              /\ \E p \in 1..Len(batchLog) :
                   /\ batchLog[p].kind = "settle"
                   /\ batchLog[p].cap = "uploadPdfToLlamaParse"
                   /\ batchLog[p].file = k
    /\ \A a, b \in 1..Len(BatchEvents) :
         a < b => BatchEvents[a].processedFiles <= BatchEvents[b].processedFiles
    /\ \A a \in 1..Len(BatchEvents) :
         BatchEvents[a].isComplete
           => BatchEvents[a].processedFiles = BatchEvents[a].totalFiles

\* the upload of the first file rejected, the poll of the second came
\* back with an error, the third was parsed
C34_Witness ==
    /\ batchPc = "returned"
    /\ Len(downloadedFiles) = 3
    /\ \E p \in BatchFailures(1) :
         batchLog[p].cap = "uploadPdfToLlamaParse"
    /\ \E p \in BatchFailures(2) : batchLog[p].cap = "pollLlamaParseJob"
    /\ batchResults[1].status = "error"
    /\ batchResults[2].status = "error"
    /\ batchResults[3].status = "completed"
    /\ BatchEvents[Len(BatchEvents)].isComplete
    /\ BatchEvents[Len(BatchEvents)].processedFiles = 3

\* C35 (as claimed): once the user has cancelled, the view stays
\* DRIVE_FILE_SELECTION whatever the operation in flight does.
C35_CancelledOperationLeavesTheView ==
    cancelled => view = "DRIVE_FILE_SELECTION"


\* C36: once a valid request has been started, and every capability call
\* settles, the run returns; a progress event with isComplete is the last
\* event, is delivered in the returning step, names position totalFiles and
\* the stage 'completed'; and a returned run has delivered exactly one,
\* whichever files failed and whether or not the final write failed.
C36_ValidRunsTerminateWithOneCompleteEvent ==
    /\ (ValidRequest /\ pc # "start") ~> (pc = "returned")
    /\ [](\A j \in 1..Len(Events) :
            Events[j].isComplete =>
              /\ j = Len(Events)
              /\ pc = "returned"
              /\ Events[j].currentFileIndex = Events[j].totalFiles
              /\ Events[j].totalFiles = N
              /\ Events[j].currentStage = "completed")
    /\ [](ValidRequest => pc # "thrown")
    /\ [](pc = "returned" =>
            /\ Len(Events) > 0
            /\ Events[Len(Events)].isComplete
            /\ log[Len(log)].kind = "progress")

C36_Witness ==
    /\ pc = "returned"
    /\ N = 3
    /\ Len(failedFiles) = 2
    /\ PersistFailed
    /\ Events[Len(Events)].isComplete


\* the status changes to 'error' recorded before position p of the history
ErrorsBefore(p) ==
    {q \in 1..(p - 1) : log[q].kind = "status" /\ log[q].status = "error"}

FailedNames == {failedFiles[k] : k \in 1..Len(failedFiles)}

\* C37: an event has hasErrors exactly when some stage of some file had
\* become 'error' before it was delivered, which is when its fileResults
\* show a stage 'error'; after an event with hasErrors every event has it;
\* and when the run has returned, the last event has hasErrors exactly when
\* failedFiles is not empty and a file has an error message exactly when
\* its name is in failedFiles.
C37_HasErrorsFollowsTheStageStatuses ==
    /\ \A p \in 1..Len(log) :
         log[p].kind = "progress" =>
           /\ log[p].event.hasErrors <=> ErrorsBefore(p) # {}
           /\ log[p].event.hasErrors <=>
                \E k \in 1..Len(log[p].event.fileResults) :
                  \E j \in 1..Len(Stages) :
                    log[p].event.fileResults[k][Stages[j]] = "error"
    /\ \A j \in 1..(Len(Events) - 1) :
         Events[j].hasErrors => Events[j + 1].hasErrors
    /\ pc = "returned" =>
         /\ Events[Len(Events)].hasErrors <=> failedFiles # <<>>
         /\ \A k \in 1..N :
              fileResults[k].error # <<>> <=>
                fileResults[k].fileName \in FailedNames
         /\ Events[Len(Events)].fileResults = fileResults

C37_Witness ==
    /\ pc = "returned"
    /\ N = 3
    /\ FailuresOfCap("downloadFn", 0) = {}
    /\ FailuresOf(0) # {}
    /\ FailuresOf(1) = {}
    /\ FailuresOf(2) = {}
    /\ Events[Len(Events)].hasErrors
    /\ ~Events[3].hasErrors
    /\ Len(failedFiles) = 1


\* C38: what a caller reads from the fileResults of an event it was
\* handed earlier (statuses, error, job id) is what the event showed when
\* it was delivered, whatever the pipeline has done since.
C38_DeliveredResultsAreSnapshots ==
    \A j \in 1..Len(Events) :
        Delivered(j).fileResults = Events[j].fileResults


\* C39: however many period columns the sheet and the records have, the
\* start and end column of every range handed to updateSheetCells is one
\* of the letters A to Z.
C39_EveryRangeNamesALetterColumn ==
    \A c \in 1..Len(sheetCalls) : \A u \in 1..Len(sheetCalls[c]) :
        /\ sheetCalls[c][u].range.startCol \in {Alphabet[n] : n \in 1..26}
        /\ sheetCalls[c][u].range.endCol \in {Alphabet[n] : n \in 1..26}

============================================================================
